---- MODULE Spec2Model ----
(***************************************************************************)
(* Model of backend/quiz_generator.py: the heuristic quiz synthesis        *)
(* pipeline (preprocess, select_answer_candidate, make_distractors,        *)
(* make_mcq_from_sentence, make_tf_from_sentence, create_quiz_from_text).  *)
(*                                                                         *)
(* A Python str is a sequence of one-character strings, so that strip,     *)
(* lower, split, the regular expressions and the substitutions are         *)
(* computed character by character as the code computes them.              *)
(***************************************************************************)
EXTENDS Integers, Sequences, FiniteSets, TLC

(***************************************************************************)
(* Process-wide state, set when the module is imported                     *)
(***************************************************************************)
VARIABLES
    nlp,        \* the spaCy model: [avail |-> FALSE], or the parser as a table
                \* [avail |-> TRUE, parse |-> sentence -> its annotations]
    wn,         \* the WordNet corpus reader: [avail |-> FALSE], or
                \* [avail |-> TRUE, lemmas |-> {<<word, lemma name>>}]
    hashOrder,  \* iteration order of a set of str in this process (str hashes
                \* are randomised per process): a sequence of the names
    rng,        \* state of the module-level generator of random
    seed        \* the value the caller passed to random.seed, 0 if none

(***************************************************************************)
(* State of the calls of create_quiz_from_text, one entry per call         *)
(***************************************************************************)
VARIABLES
    pc,             \* position of the call in create_quiz_from_text
    text,           \* argument text
    num_questions,  \* argument num_questions
    state,          \* local state = preprocess(text)
    sent_idx,       \* position of `for sent in state["sentences"]`
    candidates,     \* local candidates
    cand_idx,       \* position of `for q in candidates`
    final_quiz,     \* local final_quiz
    seen_questions, \* local seen_questions
    mcq,            \* make_mcq_from_sentence: its item before random.shuffle(options)
    tf_choices,     \* make_tf_from_sentence: its local distractors
    cand_src,       \* history: the sentence each entry of candidates was built from
    final_src,      \* history: the sentence each entry of final_quiz was built from
    draws           \* history: the states of rng at the draws of the call

(***************************************************************************)
(* A call of make_distractors from outside the pipeline                    *)
(***************************************************************************)
VARIABLES
    md_call         \* [pc, answer, state, n] and, once it returned, ret

(***************************************************************************)
(* Calls of other entry points: make_tf_from_sentence, the handler         *)
(* submit_quiz of app.py, get_transcript_from_url of audio_extractor.py    *)
(***************************************************************************)
VARIABLES
    tf_call,        \* [pc, sentence, state, false_prob], then branch, ret
    sq_call,        \* [pc, quiz, answers, identity, now], then resp
    gt_call         \* [pc, url, env], then work_dir, audio_path, ret

(***************************************************************************)
(* The database of app.py (MongoDB) and the requests its handlers register *)
(* and process_video are serving                                           *)
(***************************************************************************)
VARIABLES
    users_col,            \* the collection users: its documents, in insertion order
    video_summaries_col,  \* the collection video_summaries: its documents
    unique_indexes,       \* the fields the deployment keeps a unique index on
    requests,             \* the requests in flight: [pc, ...] per worker
    recorded              \* history: the weak-topic documents pushed, in order

procVars == <<nlp, wn, hashOrder, seed>>
\* the variables of create_quiz_from_text and of the process it runs in
pipeVars == <<nlp, wn, hashOrder, rng, seed, pc, text, num_questions, state, sent_idx,
              candidates, cand_idx, final_quiz, seen_questions, mcq, tf_choices,
              cand_src, final_src, draws>>
\* the calls from outside the pipeline
dbVars == <<users_col, video_summaries_col, unique_indexes, requests, recorded>>
outside == <<md_call, tf_call, sq_call, gt_call, dbVars>>
vars == <<nlp, wn, hashOrder, rng, seed, pc, text, num_questions, state, sent_idx,
          candidates, cand_idx, final_quiz, seen_questions, mcq, tf_choices,
          cand_src, final_src, draws, md_call, tf_call, sq_call, gt_call,
          users_col, video_summaries_col, unique_indexes, requests, recorded>>

(***************************************************************************)
(* Characters                                                              *)
(***************************************************************************)
UpperChars == <<"A","B","C","D","E","F","G","H","I","J","K","L","M",
                "N","O","P","Q","R","S","T","U","V","W","X","Y","Z">>
LowerChars == <<"a","b","c","d","e","f","g","h","i","j","k","l","m",
                "n","o","p","q","r","s","t","u","v","w","x","y","z">>
UpperSet == {UpperChars[i] : i \in 1..26}
LowerSet == {LowerChars[i] : i \in 1..26}
LowerOf == [c \in UpperSet |-> LowerChars[CHOOSE i \in 1..26 : UpperChars[i] = c]]

AlphaSet == UpperSet \cup LowerSet
\* \s of the regular expressions and the whitespace of str.strip / str.split
SpaceSet == {" ", "\t", "\n"}
\* \w of the regular expressions (letters, digits, underscore)
IsWordChar(c) == c \in AlphaSet \/ c = "_" \/ c \in {"0","1","2","3","4","5","6","7","8","9"}
\* [.!?] of simple_sent_split
IsSentEnd(c) == c \in {".", "!", "?"}

lower_char(c) == IF c \in UpperSet THEN LowerOf[c] ELSE c

(***************************************************************************)
(* Python str and list primitives                                          *)
(***************************************************************************)
\* str.lower()
lower(s) == [i \in 1..Len(s) |-> lower_char(s[i])]

\* least element of a non-empty set of integers
MinOf(S) == CHOOSE m \in S : \A k \in S : m <= k
\* greatest element of a non-empty set of integers
MaxOf(S) == CHOOSE m \in S : \A k \in S : k <= m

\* first index >= i of s whose character is in Class, else Len(s)+1
ScanTo(s, i, Class) ==
    LET hits == {j \in i..Len(s) : s[j] \in Class}
    IN  IF hits = {} THEN Len(s) + 1 ELSE MinOf(hits)

\* first index >= i of s whose character is not in Class, else Len(s)+1
ScanWhile(s, i, Class) ==
    LET hits == {j \in i..Len(s) : s[j] \notin Class}
    IN  IF hits = {} THEN Len(s) + 1 ELSE MinOf(hits)

\* str.lstrip()
lstrip(s) == SubSeq(s, ScanWhile(s, 1, SpaceSet), Len(s))

\* str.rstrip()
rstrip(s) ==
    LET keep == {j \in 1..Len(s) : s[j] \notin SpaceSet}
    IN  IF keep = {} THEN <<>> ELSE SubSeq(s, 1, MaxOf(keep))

\* str.strip()
strip(s) == rstrip(lstrip(s))

\* str.split() with no argument: the whitespace-delimited tokens
RECURSIVE split(_)
split(s) ==
    LET t == lstrip(s)
        e == ScanTo(t, 1, SpaceSet)
    IN  IF t = <<>> THEN <<>>
        ELSE <<SubSeq(t, 1, e - 1)>> \o split(SubSeq(t, e, Len(t)))

\* sub occurs in s at index i
MatchAt(sub, s, i) ==
    /\ i >= 1
    /\ i + Len(sub) - 1 <= Len(s)
    /\ \A k \in 1..Len(sub) : s[i + k - 1] = sub[k]

\* Python `sub in s` for strings
contains(sub, s) == \E i \in 1..(Len(s) + 1) : MatchAt(sub, s, i)

\* Python `x in xs` for lists
InList(x, xs) == \E i \in 1..Len(xs) : xs[i] = x

\* Python xs[:n], also for negative n
PySlice(xs, n) ==
    IF n >= 0 THEN SubSeq(xs, 1, IF n < Len(xs) THEN n ELSE Len(xs))
    ELSE SubSeq(xs, 1, IF Len(xs) + n > 0 THEN Len(xs) + n ELSE 0)

\* order-preserving removal of repeated entries: list(dict.fromkeys(xs))
\* (the entries of xs at the indices of their first occurrence, in order)
Dedupe(xs) ==
    LET first == {i \in 1..Len(xs) : \A j \in 1..(i - 1) : xs[j] # xs[i]}
    IN  [k \in 1..Cardinality(first) |->
            xs[CHOOSE i \in first : Cardinality({j \in first : j <= i}) = k]]

\* \b of the regular expressions at position i (between s[i-1] and s[i])
WordBoundary(s, i) ==
    LET before == i > 1 /\ i - 1 <= Len(s) /\ IsWordChar(s[i - 1])
        after == i >= 1 /\ i <= Len(s) /\ IsWordChar(s[i])
    IN  before # after

(***************************************************************************)
(* The regular expressions of the heuristic mode                           *)
(***************************************************************************)
\* [A-Z][a-z]{3,} at index i: the index after the match, 0 when it fails
CapWordEnd(s, i) ==
    IF i >= 1 /\ i <= Len(s) /\ s[i] \in UpperSet
    THEN LET e == ScanWhile(s, i + 1, LowerSet)
         IN  IF e - (i + 1) >= 3 THEN e ELSE 0
    ELSE 0

\* (?:\s+[A-Z][a-z]{3,})* from index e: the index after the last repetition
RECURSIVE ExtendCaps(_, _)
ExtendCaps(s, e) ==
    IF e <= Len(s) /\ s[e] \in SpaceSet
    THEN LET w == ScanWhile(s, e, SpaceSet)
             e2 == CapWordEnd(s, w)
         IN  IF e2 > 0 THEN ExtendCaps(s, e2) ELSE e
    ELSE e

\* \b[A-Z][a-z]{3,}(?:\s+[A-Z][a-z]{3,})* at index i: index after the match, or 0
CapsMatchEnd(s, i) ==
    IF WordBoundary(s, i) /\ CapWordEnd(s, i) > 0
    THEN ExtendCaps(s, CapWordEnd(s, i)) ELSE 0

\* re.findall(r'\b[A-Z][a-z]{3,}(?:\s+[A-Z][a-z]{3,})*', s), scanning from i
RECURSIVE FindallCapsFrom(_, _)
FindallCapsFrom(s, i) ==
    LET starts == {j \in i..Len(s) : CapsMatchEnd(s, j) > 0}
    IN  IF starts = {} THEN <<>>
        ELSE LET j == MinOf(starts)
                 e == CapsMatchEnd(s, j)
             IN  <<SubSeq(s, j, e - 1)>> \o FindallCapsFrom(s, e)

FindallCaps(s) == FindallCapsFrom(s, 1)

\* \b[A-Za-z]{4,}\b at index i: index after the match, or 0
Word4MatchEnd(s, i) ==
    IF WordBoundary(s, i) /\ i <= Len(s) /\ s[i] \in AlphaSet
    THEN LET e == ScanWhile(s, i, AlphaSet)
         IN  IF e - i >= 4 /\ WordBoundary(s, e) THEN e ELSE 0
    ELSE 0

\* re.findall(r'\b[A-Za-z]{4,}\b', s), scanning from i
RECURSIVE FindallWord4From(_, _)
FindallWord4From(s, i) ==
    LET starts == {j \in i..Len(s) : Word4MatchEnd(s, j) > 0}
    IN  IF starts = {} THEN <<>>
        ELSE LET j == MinOf(starts)
                 e == Word4MatchEnd(s, j)
             IN  <<SubSeq(s, j, e - 1)>> \o FindallWord4From(s, e)

FindallWord4(s) == FindallWord4From(s, 1)

\* \b[A-Za-z][A-Za-z\-]+\b at index i: index after the match, or 0.  The
\* greedy run of letters and hyphens backtracks to the longest prefix that
\* ends at a word boundary.
KwWordMatchEnd(s, i) ==
    IF WordBoundary(s, i) /\ i <= Len(s) /\ s[i] \in AlphaSet
    THEN LET run == ScanWhile(s, i + 1, AlphaSet \cup {"-"})
             ends == {e \in (i + 2)..run : WordBoundary(s, e)}
         IN  IF ends # {} THEN MaxOf(ends) ELSE 0
    ELSE 0

\* re.findall(r'\b[A-Za-z][A-Za-z\-]+\b', s), scanning from i
RECURSIVE FindallKwWordFrom(_, _)
FindallKwWordFrom(s, i) ==
    LET starts == {j \in i..Len(s) : KwWordMatchEnd(s, j) > 0}
    IN  IF starts = {} THEN <<>>
        ELSE LET j == MinOf(starts)
                 e == KwWordMatchEnd(s, j)
             IN  <<SubSeq(s, j, e - 1)>> \o FindallKwWordFrom(s, e)

RECURSIVE FindallKwWord(_)
\* re.findall(r'\b[A-Za-z][A-Za-z\-]+\b', s).  No match holds a whitespace
\* character: a long s is scanned in two parts, cut at the first whitespace
\* character of its second half.
FindallKwWord(s) ==
    LET cuts == {i \in (Len(s) \div 2)..Len(s) : s[i] \in SpaceSet}
    IN  IF Len(s) <= 64 \/ cuts = {} THEN FindallKwWordFrom(s, 1)
        ELSE FindallKwWord(SubSeq(s, 1, MinOf(cuts) - 1))
                 \o FindallKwWord(SubSeq(s, MinOf(cuts) + 1, Len(s)))

\* re.split(r'(?<=[.!?])\s+', t): the parts of t from index start on
RECURSIVE SentSplitFrom(_, _)
SentSplitFrom(t, start) ==
    LET cuts == {i \in (IF start > 2 THEN start ELSE 2)..Len(t) :
                    IsSentEnd(t[i - 1]) /\ t[i] \in SpaceSet}
    IN  IF cuts = {} THEN <<SubSeq(t, start, Len(t))>>
        ELSE LET i == MinOf(cuts)
                 w == ScanWhile(t, i, SpaceSet)
             IN  <<SubSeq(t, start, i - 1)>> \o SentSplitFrom(t, w)

\* SubFirstIgnoreCase with the flag re.IGNORECASE left out: the first
\* occurrence of pat in its own case is replaced
SubFirst_CaseSensitive(pat, repl, s) ==
    LET hits == {i \in 1..(Len(s) + 1) : MatchAt(pat, s, i)}
    IN  IF hits = {} THEN s
        ELSE LET i == MinOf(hits)
             IN  SubSeq(s, 1, i - 1) \o repl \o SubSeq(s, i + Len(pat), Len(s))

\* pattern.sub(repl, s, count=1) for re.compile(re.escape(pat), re.IGNORECASE):
\* the first case-insensitive occurrence of pat is replaced by repl
SubFirstIgnoreCase(pat, repl, s) ==
    LET hits == {i \in 1..(Len(s) + 1) : MatchAt(lower(pat), lower(s), i)}
    IN  IF hits = {} THEN s
        ELSE LET i == MinOf(hits)
             IN  SubSeq(s, 1, i - 1) \o repl \o SubSeq(s, i + Len(pat), Len(s))

(***************************************************************************)
(* collections.Counter                                                     *)
(***************************************************************************)
CountOf(w, words) == Cardinality({i \in 1..Len(words) : words[i] = w})

\* 1-based position of keys[j] when keys is sorted by descending count, equal
\* counts staying in the order of first insertion
CountRank(counts, j) ==
    1 + Cardinality({h \in 1..Len(counts) :
            \/ counts[h] > counts[j]
            \/ counts[h] = counts[j] /\ h < j})

SortByCount(keys, words) ==
    LET counts == [h \in 1..Len(keys) |-> CountOf(keys[h], words)]
    IN  [r \in 1..Len(keys) |-> keys[CHOOSE j \in 1..Len(keys) : CountRank(counts, j) = r]]

\* most_common without the sort by count: the first k keys as inserted
most_common_Unsorted(words, k) == PySlice(Dedupe(words), k)

\* Counter(words).most_common(k)
most_common(words, k) == PySlice(SortByCount(Dedupe(words), words), k)

(***************************************************************************)
(* Literals of the code                                                    *)
(***************************************************************************)
BlankMarker == <<"_","_","_","_","_","_">>
StrTrue == <<"T","r","u","e">>
StrFalse == <<"F","a","l","s","e">>
EmptyStr == <<>>
\* Python None where an item is expected
None == [type |-> "None"]
\* Python None where a str is expected (no str: its entry is no character)
NoneStr == <<"None">>
\* most_common(50)
KeywordCap == 50
\* n_distractors=3 of make_mcq_from_sentence
McqDistractors == 3
\* make_distractors(swap_target, state, n=5) of make_tf_from_sentence
TfDistractors == 5

(***************************************************************************)
(* random: a draw is a raw value; random.random() is raw / RScale,         *)
(* randbelow(k) is raw % k                                                 *)
(***************************************************************************)
\* resolution of the floats: random.random() takes the values raw / RScale
RScale == 4
\* false_prob=0.5 of make_tf_from_sentence, as a fraction
FalseProbDefault == [num |-> 1, den |-> 2]

\* random.random() < 0.5 (create_quiz_from_text)
CoinTakesTf(raw) == 2 * raw < RScale

\* TfTruthful with the comparison turned round: random.random() < false_prob
TfTruthful_Below(raw, false_prob) == raw * false_prob.den < false_prob.num * RScale

\* random.random() > false_prob (make_tf_from_sentence)
TfTruthful(raw, false_prob) == raw * false_prob.den > false_prob.num * RScale

\* random.choice(xs) = xs[randbelow(len(xs))]
Choice(xs, raw) == xs[1 + (raw % Len(xs))]

Swap(xs, i, j) == [xs EXCEPT ![i] = xs[j], ![j] = xs[i]]

\* random.shuffle(xs): for i in reversed(range(1, len(xs))): j = randbelow(i+1);
\* xs[i], xs[j] = xs[j], xs[i].  raws[k] is the k-th raw value drawn; the
\* 1-based position i of this model is the 0-based position i-1 of the code.
RECURSIVE ShuffleFrom(_, _, _)
ShuffleFrom(xs, raws, i) ==
    IF i < 2 THEN xs
    ELSE ShuffleFrom(Swap(xs, i, 1 + (raws[Len(xs) - i + 1] % i)), raws, i - 1)

Shuffle(xs, raws) == ShuffleFrom(xs, raws, Len(xs))

\* number of raw values random.shuffle draws for a list of length n
ShuffleNeeds(n) == IF n >= 2 THEN n - 1 ELSE 0

(***************************************************************************)
(* preprocess                                                              *)
(***************************************************************************)
LowerAll(xs) == [i \in 1..Len(xs) |-> lower(xs[i])]
StripAll(xs) == [i \in 1..Len(xs) |-> strip(xs[i])]

\* simple_sent_split
simple_sent_split(txt) ==
    SelectSeq(StripAll(SentSplitFrom(strip(txt), 1)), LAMBDA q : q # <<>>)

EmptyState == [sentences |-> <<>>, noun_chunks |-> <<>>, keywords |-> <<>>]

\* an input is [kind |-> "str", val |-> characters], or a value of another
\* Python type: [kind |-> "NoneType"], [kind |-> "int", val |-> k], ...
IsStr(inp) == inp.kind = "str"
Truthy(inp) ==
    CASE inp.kind = "str" -> inp.val # <<>>
      [] inp.kind = "int" -> inp.val # 0
      [] inp.kind = "list" -> inp.val # <<>>
      [] OTHER -> FALSE

\* HeuristicState with `len(w) > 2` as the test of a keyword
HeuristicState_ShortWords(txt) ==
    [sentences |-> SelectSeq(simple_sent_split(txt), LAMBDA q : Len(split(q)) > 4),
     noun_chunks |-> <<>>,
     keywords |-> most_common(
         LowerAll(SelectSeq(FindallKwWord(txt), LAMBDA w : Len(w) > 2)), KeywordCap)]

\* HeuristicState with `len(s.split()) >= 4` as the test of a sentence
HeuristicState_AtLeastFour(txt) ==
    [sentences |-> SelectSeq(simple_sent_split(txt), LAMBDA q : Len(split(q)) >= 4),
     noun_chunks |-> <<>>,
     keywords |-> most_common(
         LowerAll(SelectSeq(FindallKwWord(txt), LAMBDA w : Len(w) > 3)), KeywordCap)]

\* the else branch of preprocess (nlp is None).  The doc field (None here) is
\* left out.
HeuristicState(txt) ==
    [sentences |-> SelectSeq(simple_sent_split(txt), LAMBDA q : Len(split(q)) > 4),
     noun_chunks |-> <<>>,
     keywords |-> most_common(
         LowerAll(SelectSeq(FindallKwWord(txt), LAMBDA w : Len(w) > 3)), KeywordCap)]

\* token.is_alpha and not token.is_stop and token.pos_ in ("NOUN", "PROPN")
IsKeywordToken(t) == t.is_alpha /\ ~t.is_stop /\ t.pos \in {"NOUN", "PROPN"}

\* the lemmas of tokens
Lemmas(tokens) == [i \in 1..Len(tokens) |-> tokens[i].lemma]

\* the if branch of preprocess, doc = nlp(text).  The doc field is left out.
ParsedState(doc) ==
    [sentences |-> StripAll(SelectSeq(doc.sents, LAMBDA q : Len(split(q)) > 4)),
     noun_chunks |-> doc.noun_chunks,
     keywords |-> most_common(LowerAll(Lemmas(SelectSeq(doc.tokens, IsKeywordToken))),
                              KeywordCap)]

\* an exception leaves preprocess (str methods called on a value that is no str)
RaisedState == [sentences |-> <<>>, noun_chunks |-> <<>>, keywords |-> <<>>,
                raised |-> TRUE]
Raises(st) == "raised" \in DOMAIN st

\* preprocess with `if not text:` as its guard, the isinstance test left out
preprocess_NoTypeCheck(inp) ==
    IF ~Truthy(inp) THEN EmptyState
    ELSE IF ~IsStr(inp) THEN RaisedState
    ELSE IF nlp.avail THEN ParsedState(nlp.parse[inp.val])
    ELSE HeuristicState(inp.val)

preprocess(inp) ==
    IF ~Truthy(inp) \/ ~IsStr(inp) THEN EmptyState
    ELSE IF nlp.avail THEN ParsedState(nlp.parse[inp.val])
    ELSE HeuristicState(inp.val)

(***************************************************************************)
(* Distractors                                                             *)
(***************************************************************************)
\* str.replace('_', ' ')
ReplaceUnderscore(name) == [i \in 1..Len(name) |-> IF name[i] = "_" THEN " " ELSE name[i]]

\* the lemma names met by the loops of wordnet_distractors: the lemmas of
\* every synset of word and of its hypernyms
LemmaNames(word) == {p[2] : p \in {q \in wn.lemmas : q[1] = word}}

\* list(a_set): the elements in the iteration order of this process
SetToList(S) == SelectSeq(hashOrder, LAMBDA x : x \in S)

wordnet_distractors(word, max_distractors) ==
    IF ~wn.avail THEN <<>>
    ELSE PySlice(SetToList({ReplaceUnderscore(nm) : nm \in
                               {l \in LemmaNames(word) :
                                   lower(ReplaceUnderscore(l)) # lower(word)}}),
                 max_distractors)

\* for c in cand: if len(choices) >= n: break; choices.append(c)
RECURSIVE TakeUntil(_, _, _)
TakeUntil(choices, cand, n) ==
    IF cand = <<>> \/ Len(choices) >= n THEN choices
    ELSE TakeUntil(Append(choices, Head(cand)), Tail(cand), n)

\* x.lower() not in answer.lower()
NotInAnswer(x, answer) == ~contains(lower(x), lower(answer))

\* the noun_chunks loop of fallback_distractors
RECURSIVE TakeChunks(_, _, _, _)
TakeChunks(choices, chunks, answer, n) ==
    IF chunks = <<>> \/ Len(choices) >= n THEN choices
    ELSE TakeChunks(IF NotInAnswer(Head(chunks), answer) /\ ~InList(Head(chunks), choices)
                    THEN Append(choices, Head(chunks)) ELSE choices,
                    Tail(chunks), answer, n)

\* fallback_distractors with its two loops in the other order: the noun
\* chunks first, then the keywords
fallback_distractors_ChunksFirst(answer, keywords, noun_chunks, n) ==
    PySlice(TakeUntil(TakeChunks(<<>>, noun_chunks, answer, n),
                      SelectSeq(keywords, LAMBDA k : NotInAnswer(k, answer)), n),
            n)

fallback_distractors(answer, keywords, noun_chunks, n) ==
    PySlice(TakeChunks(TakeUntil(<<>>, SelectSeq(keywords, LAMBDA k : NotInAnswer(k, answer)), n),
                       noun_chunks, answer, n),
            n)

\* token = answer.strip().split()[0] if answer.strip() else ''
FirstToken(answer) ==
    IF strip(answer) # <<>> THEN split(strip(answer))[1] ELSE EmptyStr

\* make_distractors from `if len(combined) < n` on
FillExtras(combined, answer, keywords, n) ==
    IF Len(combined) < n
    THEN PySlice(TakeUntil(combined,
                           SelectSeq(keywords, LAMBDA k : ~InList(k, combined)
                                                          /\ NotInAnswer(k, answer)),
                           n),
                 n)
    ELSE PySlice(combined, n)

\* make_distractors after wn_candidates is computed
DistractorsGiven(wn_candidates, answer, st, n) ==
    IF Len(wn_candidates) >= n THEN PySlice(wn_candidates, n)
    ELSE FillExtras(Dedupe(wn_candidates \o
                           fallback_distractors(answer, st.keywords, st.noun_chunks, n)),
                    answer, st.keywords, n)

make_distractors(answer, st, n) ==
    DistractorsGiven(wordnet_distractors(lower(FirstToken(answer)), n), answer, st, n)

(***************************************************************************)
(* Answer span and item builders                                           *)
(***************************************************************************)
\* 1-based position of xs[j] when xs is sorted by descending length, stably
LenRank(xs, j) ==
    1 + Cardinality({h \in 1..Len(xs) :
            \/ Len(xs[h]) > Len(xs[j])
            \/ Len(xs[h]) = Len(xs[j]) /\ h < j})

\* sorted(xs, key=len, reverse=True)
SortByLenDesc(xs) ==
    [r \in 1..Len(xs) |-> xs[CHOOSE j \in 1..Len(xs) : LenRank(xs, j) = r]]

\* not x, for x a str or None
Falsy(x) == x = NoneStr \/ x = EmptyStr

\* xs[0] if xs else None
FirstOrNone(xs) == IF xs # <<>> THEN xs[1] ELSE NoneStr

\* the texts of tokens
TokenTexts(tokens) == [i \in 1..Len(tokens) |-> tokens[i].text]

\* select_answer_candidate, nlp branch, s_doc = nlp(sentence)
ParsedAnswer(s_doc) ==
    IF s_doc.ents # <<>> THEN strip(s_doc.ents[1])
    ELSE IF s_doc.noun_chunks # <<>> THEN SortByLenDesc(StripAll(s_doc.noun_chunks))[1]
    ELSE FirstOrNone(TokenTexts(SelectSeq(s_doc.tokens,
                                          LAMBDA t : t.pos \in {"NOUN", "PROPN"})))

\* select_answer_candidate, heuristic branch, caps = re.findall(...)
HeuristicAnswer(caps, sentence) ==
    IF caps # <<>> THEN strip(caps[1])
    ELSE FirstOrNone(FindallWord4(sentence))

select_answer_candidate(sentence) ==
    IF nlp.avail THEN ParsedAnswer(nlp.parse[sentence])
    ELSE HeuristicAnswer(FindallCaps(sentence), sentence)

\* Topic with the last keyword in the place of the first
Topic_LastKeyword(st) ==
    IF st.keywords # <<>> THEN st.keywords[Len(st.keywords)] ELSE EmptyStr

\* (state.get('keywords') or [None])[0] or ''
Topic(st) == IF st.keywords # <<>> THEN st.keywords[1] ELSE EmptyStr

\* options = list(dict.fromkeys([opt.strip() for opt in options if opt ...]))
\* with the dict.fromkeys deduplication left out
McqOptionsOf_NoDedupe(ans, st, n_distractors) ==
    StripAll(SelectSeq(<<ans>> \o make_distractors(ans, st, n_distractors),
                       LAMBDA o : o # EmptyStr))

\* options = [ans] + distractors;
\* options = list(dict.fromkeys([opt.strip() for opt in options if opt ...]))
McqOptionsOf(ans, st, n_distractors) ==
    Dedupe(StripAll(SelectSeq(<<ans>> \o make_distractors(ans, st, n_distractors),
                              LAMBDA o : o # EmptyStr)))

\* make_mcq_from_sentence from `if len(options) < 2` on, the shuffle excepted
McqItem(sentence, ans, options, st) ==
    IF Len(options) < 2 THEN None
    ELSE [type |-> "mcq",
          question |-> SubFirstIgnoreCase(ans, BlankMarker, sentence),
          options |-> options,
          answer |-> ans,
          correct_answer |-> ans,
          topic |-> Topic(st)]

\* McqForAnswer with the test `ans.lower() in first_two` left out
McqForAnswer_NoFirstTwo(sentence, ans, st, n_distractors) ==
    McqItem(sentence, ans, McqOptionsOf(ans, st, n_distractors), st)

\* make_mcq_from_sentence after ans = ans.strip()
McqForAnswer(sentence, ans, st, n_distractors) ==
    IF InList(lower(ans), LowerAll(PySlice(split(sentence), 2))) THEN None
    ELSE McqItem(sentence, ans, McqOptionsOf(ans, st, n_distractors), st)

\* make_mcq_from_sentence after ans = select_answer_candidate(sentence)
McqForCandidate(sentence, ans, st, n_distractors) ==
    IF Falsy(ans) THEN None
    ELSE McqForAnswer(sentence, strip(ans), st, n_distractors)

\* make_mcq_from_sentence up to random.shuffle(options): the item with its
\* options in the order [ans] + distractors, or None
make_mcq_from_sentence(sentence, st, n_distractors) ==
    McqForCandidate(sentence, select_answer_candidate(sentence), st, n_distractors)

\* random.shuffle(options) of make_mcq_from_sentence
ShuffleOptions(q, raws) == [q EXCEPT !.options = Shuffle(@, raws)]

\* TfTrue with the unaltered sentence marked "False"
TfTrue_MarkedFalse(sentence, st) ==
    [type |-> "tf", question |-> sentence, answer |-> StrFalse,
     correct_answer |-> StrFalse, topic |-> Topic(st)]

\* TfTrue with `return None` in the place of the truthful item
TfTrue_ReturnNone(sentence, st) == None

\* the truthful item of make_tf_from_sentence
TfTrue(sentence, st) ==
    [type |-> "tf", question |-> sentence, answer |-> StrTrue,
     correct_answer |-> StrTrue, topic |-> Topic(st)]

\* the swap target of make_tf_from_sentence
SwapTarget(sentence) ==
    IF nlp.avail
    THEN IF nlp.parse[sentence].ents # <<>> THEN nlp.parse[sentence].ents[1]
         ELSE FirstOrNone(nlp.parse[sentence].noun_chunks)
    ELSE FirstOrNone(FindallCaps(sentence))

\* the distractors random.choice draws from in make_tf_from_sentence; empty
\* when a truthful item is returned before (raw1 is drawn by random.random())
TfChoices(sentence, st, false_prob, raw1) ==
    IF TfTruthful(raw1, false_prob) THEN <<>>
    ELSE IF Falsy(SwapTarget(sentence)) THEN <<>>
    ELSE make_distractors(SwapTarget(sentence), st, TfDistractors)

\* make_tf_from_sentence from `replacement = random.choice(distractors)` on
TfFalse(sentence, swap_target, distractors, st, raw2) ==
    [type |-> "tf",
     question |-> SubFirstIgnoreCase(swap_target, Choice(distractors, raw2), sentence),
     answer |-> StrFalse,
     correct_answer |-> StrFalse,
     topic |-> Topic(st)]

(***************************************************************************)
(* Inputs                                                                  *)
(***************************************************************************)
\* "we saw the Moon on the lake."
TextMoon ==
    <<"w","e"," ","s","a","w"," ","t","h","e"," ","M","o","o","n"," ","o","n",
    " ","t","h","e"," ","l","a","k","e",".">>
\* "we saw the Moon on the lake. We saw the Moon on the lake."
TextMoonTwice ==
    <<"w","e"," ","s","a","w"," ","t","h","e"," ","M","o","o","n"," ","o","n",
    " ","t","h","e"," ","l","a","k","e","."," ","W","e"," ","s","a","w"," ",
    "t","h","e"," ","M","o","o","n"," ","o","n"," ","t","h","e"," ","l","a",
    "k","e",".">>
\* "The jolly Santa Claus brings gifts."
TextSanta ==
    <<"T","h","e"," ","j","o","l","l","y"," ","S","a","n","t","a"," ","C","l",
    "a","u","s"," ","b","r","i","n","g","s"," ","g","i","f","t","s",".">>
\* "The mitochondria is the powerhouse of the cell. Photosynthesis occurs in the chloroplast of plant cells. DNA carries genetic information in all living organisms."
TextScenario ==
    <<"T","h","e"," ","m","i","t","o","c","h","o","n","d","r","i","a"," ","i",
    "s"," ","t","h","e"," ","p","o","w","e","r","h","o","u","s","e"," ","o",
    "f"," ","t","h","e"," ","c","e","l","l","."," ","P","h","o","t","o","s",
    "y","n","t","h","e","s","i","s"," ","o","c","c","u","r","s"," ","i","n",
    " ","t","h","e"," ","c","h","l","o","r","o","p","l","a","s","t"," ","o",
    "f"," ","p","l","a","n","t"," ","c","e","l","l","s","."," ","D","N","A",
    " ","c","a","r","r","i","e","s"," ","g","e","n","e","t","i","c"," ","i",
    "n","f","o","r","m","a","t","i","o","n"," ","i","n"," ","a","l","l"," ",
    "l","i","v","i","n","g"," ","o","r","g","a","n","i","s","m","s",".">>
\* "The plants make food from light. The roots take water from soil. The leaves turn green in spring. The seeds grow best in shade. The bees move pollen between flowers."
TextFive ==
    <<"T","h","e"," ","p","l","a","n","t","s"," ","m","a","k","e"," ","f","o",
    "o","d"," ","f","r","o","m"," ","l","i","g","h","t","."," ","T","h","e",
    " ","r","o","o","t","s"," ","t","a","k","e"," ","w","a","t","e","r"," ",
    "f","r","o","m"," ","s","o","i","l","."," ","T","h","e"," ","l","e","a",
    "v","e","s"," ","t","u","r","n"," ","g","r","e","e","n"," ","i","n"," ",
    "s","p","r","i","n","g","."," ","T","h","e"," ","s","e","e","d","s"," ",
    "g","r","o","w"," ","b","e","s","t"," ","i","n"," ","s","h","a","d","e",
    "."," ","T","h","e"," ","b","e","e","s"," ","m","o","v","e"," ","p","o",
    "l","l","e","n"," ","b","e","t","w","e","e","n"," ","f","l","o","w","e",
    "r","s",".">>
\* "Sun is out now. Moon rose on the lake. we saw the Moon on the lake."
TextNotes ==
    <<"S","u","n"," ","i","s"," ","o","u","t"," ","n","o","w","."," ","M",
    "o","o","n"," ","r","o","s","e"," ","o","n"," ","t","h","e"," ","l","a",
    "k","e","."," ","w","e"," ","s","a","w"," ","t","h","e"," ","M","o","o",
    "n"," ","o","n"," ","t","h","e"," ","l","a","k","e",".">>
\* "Gifts came. " followed by TextSanta
TextGiftsSanta ==
    <<"G","i","f","t","s"," ","c","a","m","e","."," ">> \o TextSanta
\* 51 words of 4 letters in sentences of at most 4 words, then "zeta" thrice:
\* "Kaax kabx kacx kadx. Kaex kafx kagx kahx. Kbax kbbx kbcx kbdx. Kbex
\* kbfx kbgx kbhx. Kcax kcbx kccx kcdx. Kcex kcfx kcgx kchx. Kdax kdbx kdcx
\* kddx. Kdex kdfx kdgx kdhx. Keax kebx kecx kedx. Keex kefx kegx kehx.
\* Kfax kfbx kfcx kfdx. Kfex kffx kfgx kfhx. Kgax kgbx kgcx. Zeta zeta
\* zeta."
TextManyWords ==
    <<"K","a","a","x"," ","k","a","b","x"," ","k","a","c","x"," ","k","a",
    "d","x","."," ","K","a","e","x"," ","k","a","f","x"," ","k","a","g","x",
    " ","k","a","h","x","."," ","K","b","a","x"," ","k","b","b","x"," ","k",
    "b","c","x"," ","k","b","d","x","."," ","K","b","e","x"," ","k","b","f",
    "x"," ","k","b","g","x"," ","k","b","h","x","."," ","K","c","a","x"," ",
    "k","c","b","x"," ","k","c","c","x"," ","k","c","d","x","."," ","K","c",
    "e","x"," ","k","c","f","x"," ","k","c","g","x"," ","k","c","h","x",".",
    " ","K","d","a","x"," ","k","d","b","x"," ","k","d","c","x"," ","k","d",
    "d","x","."," ","K","d","e","x"," ","k","d","f","x"," ","k","d","g","x",
    " ","k","d","h","x","."," ","K","e","a","x"," ","k","e","b","x"," ","k",
    "e","c","x"," ","k","e","d","x","."," ","K","e","e","x"," ","k","e","f",
    "x"," ","k","e","g","x"," ","k","e","h","x","."," ","K","f","a","x"," ",
    "k","f","b","x"," ","k","f","c","x"," ","k","f","d","x","."," ","K","f",
    "e","x"," ","k","f","f","x"," ","k","f","g","x"," ","k","f","h","x",".",
    " ","K","g","a","x"," ","k","g","b","x"," ","k","g","c","x","."," ","Z",
    "e","t","a"," ","z","e","t","a"," ","z","e","t","a",".">>
\* "the moonlit lake hid the Moon."
TextMoonlit ==
    <<"t","h","e"," ","m","o","o","n","l","i","t"," ","l","a","k","e"," ",
    "h","i","d"," ","t","h","e"," ","M","o","o","n",".">>
\* "we saw the MoonLight on the lake."
TextMoonLight ==
    <<"w","e"," ","s","a","w"," ","t","h","e"," ","M","o","o","n","L","i",
    "g","h","t"," ","o","n"," ","t","h","e"," ","l","a","k","e",".">>
\* "we saw the well-known Moon on the lake."
TextWellKnown ==
    <<"w","e"," ","s","a","w"," ","t","h","e"," ","w","e","l","l","-","k",
    "n","o","w","n"," ","M","o","o","n"," ","o","n"," ","t","h","e"," ","l",
    "a","k","e",".">>
\* "we go to the sea now."
TextSeaNow ==
    <<"w","e"," ","g","o"," ","t","o"," ","t","h","e"," ","s","e","a"," ",
    "n","o","w",".">>
\* "we saw the Bank Building on the lake."
TextBank ==
    <<"w","e"," ","s","a","w"," ","t","h","e"," ","B","a","n","k"," ","B",
    "u","i","l","d","i","n","g"," ","o","n"," ","t","h","e"," ","l","a","k",
    "e",".">>
\* "   "
TextBlank ==
    <<" "," "," ">>

Texts == {EmptyStr, TextBlank, TextMoon, TextMoonTwice, TextSanta, TextScenario, TextFive,
          TextNotes, TextGiftsSanta, TextManyWords, TextMoonlit, TextMoonLight,
          TextWellKnown, TextSeaNow, TextBank}

\* values of text that are no str: None, 0, 7, []
NonStrInputs == {[kind |-> "NoneType"], [kind |-> "int", val |-> 0],
                 [kind |-> "int", val |-> 7], [kind |-> "list", val |-> <<>>]}

Inputs == {[kind |-> "str", val |-> t] : t \in Texts} \cup NonStrInputs

\* largest num_questions of the enumerated calls
MaxN == 2
\* num_questions of the scenario of the specification
ScenarioN == 5
Counts == (-1..MaxN) \cup {ScenarioN}

(***************************************************************************)
(* Backends                                                                *)
(***************************************************************************)
NlpNone == [avail |-> FALSE]

\* a token of a parsed text
Tok(txt, lemma, pos, is_stop) ==
    [text |-> txt, lemma |-> lemma, pos |-> pos, is_alpha |-> pos # "PUNCT",
     is_stop |-> is_stop]

\* the tokens of TextSanta
SantaTokens ==
    <<Tok(<<"T","h","e">>, <<"t","h","e">>, "DET", TRUE),
      Tok(<<"j","o","l","l","y">>, <<"j","o","l","l","y">>, "ADJ", FALSE),
      Tok(<<"S","a","n","t","a">>, <<"S","a","n","t","a">>, "PROPN", FALSE),
      Tok(<<"C","l","a","u","s">>, <<"C","l","a","u","s">>, "PROPN", FALSE),
      Tok(<<"b","r","i","n","g","s">>, <<"b","r","i","n","g">>, "VERB", FALSE),
      Tok(<<"g","i","f","t","s">>, <<"g","i","f","t">>, "NOUN", FALSE),
      Tok(<<".">>, <<".">>, "PUNCT", FALSE)>>

\* the noun chunks of TextSanta: "The jolly Santa Claus", "gifts"
SantaChunks ==
    <<<<"T","h","e"," ","j","o","l","l","y"," ","S","a","n","t","a"," ","C","l","a","u","s">>,
      <<"g","i","f","t","s">>>>

\* the annotations of TextGiftsSanta: the sentences "Gifts came." and
\* TextSanta, the noun chunk "Gifts" before those of TextSanta
GiftsSantaDoc(ents) ==
    [sents |-> <<<<"G","i","f","t","s"," ","c","a","m","e",".">>, TextSanta>>,
     noun_chunks |-> <<<<"G","i","f","t","s">>>> \o SantaChunks,
     ents |-> ents,
     tokens |-> <<Tok(<<"G","i","f","t","s">>, <<"g","i","f","t">>, "NOUN", FALSE),
                  Tok(<<"c","a","m","e">>, <<"c","o","m","e">>, "VERB", FALSE),
                  Tok(<<".">>, <<".">>, "PUNCT", FALSE)>> \o SantaTokens]

\* a parser, as the table of its annotations of the texts it is given: one
\* that finds the entity "Santa Claus" in TextSanta, and one that finds none
NlpEnts ==
    [avail |-> TRUE,
     parse |-> (TextSanta :> [sents |-> <<TextSanta>>, noun_chunks |-> SantaChunks,
                              ents |-> <<<<"S","a","n","t","a"," ","C","l","a","u","s">>>>,
                              tokens |-> SantaTokens])
               @@ (TextGiftsSanta :>
                     GiftsSantaDoc(<<<<"S","a","n","t","a"," ","C","l","a","u","s">>>>))]
NlpChunks ==
    [avail |-> TRUE,
     parse |-> (TextSanta :> [sents |-> <<TextSanta>>, noun_chunks |-> SantaChunks,
                              ents |-> <<>>, tokens |-> SantaTokens])
               @@ (TextGiftsSanta :> GiftsSantaDoc(<<>>))]
Parsers == {NlpNone, NlpEnts, NlpChunks}

\* the parser is given no text but those of its table
Parseable(inp, parser) ==
    (parser.avail /\ IsStr(inp) /\ Truthy(inp)) => inp.val \in DOMAIN parser.parse
WnNone == [avail |-> FALSE]
\* an excerpt of WordNet: the noun synset santa_claus.n.01 has the lemmas
\* Santa_Claus, Santa and Saint_Nick (among others)
WordNetExcerpt ==
    [avail |-> TRUE,
     lemmas |-> {<<<<"s","a","n","t","a">>, <<"S","a","n","t","a","_","C","l","a","u","s">>>>,
                 <<<<"s","a","n","t","a">>, <<"S","a","n","t","a">>>>,
                 <<<<"s","a","n","t","a">>, <<"S","a","i","n","t","_","N","i","c","k">>>>}]

\* another excerpt: the noun synset bank.n.09 (the building) has the lemmas
\* bank and bank_building
WordNetBank ==
    [avail |-> TRUE,
     lemmas |-> {<<<<"b","a","n","k">>, <<"b","a","n","k">>>>,
                 <<<<"b","a","n","k">>, <<"b","a","n","k","_","b","u","i","l","d","i","n","g">>>>}]

\* the names a set built by wordnet_distractors can hold
SetNames(w) ==
    IF ~w.avail THEN {}
    ELSE {ReplaceUnderscore(p[2]) : p \in
             {q \in w.lemmas : lower(ReplaceUnderscore(q[2])) # lower(q[1])}}

\* the orders in which a process can iterate the elements of S
Orders(S) == {f \in [1..Cardinality(S) -> S] : \A x \in S : \E i \in 1..Cardinality(S) : f[i] = x}

(***************************************************************************)
(* create_quiz_from_text, step by step                                     *)
(***************************************************************************)
Calls == {1, 2}

CurSentence(c) == state[c].sentences[sent_idx[c]]

\* after the body of the sentence loop: the next sentence, or the shuffle
AfterSentence(c) ==
    /\ sent_idx' = [sent_idx EXCEPT ![c] = @ + 1]
    /\ pc' = [pc EXCEPT ![c] = IF sent_idx[c] + 1 <= Len(state[c].sentences)
                                THEN "mcq" ELSE "shuffle"]

\* candidates.append(q), q built from the current sentence
AppendCandidate(c, q) ==
    /\ candidates' = [candidates EXCEPT ![c] = Append(@, q)]
    /\ cand_src' = [cand_src EXCEPT ![c] = Append(@, CurSentence(c))]

\* the locals of create_quiz_from_text once preprocess returned st
EnterLoop(c, st) ==
    /\ state' = [state EXCEPT ![c] = st]
    /\ candidates' = [candidates EXCEPT ![c] = <<>>]
    /\ cand_src' = [cand_src EXCEPT ![c] = <<>>]
    /\ sent_idx' = [sent_idx EXCEPT ![c] = 1]
    /\ pc' = [pc EXCEPT ![c] = IF Raises(st) THEN "raised"
                                ELSE IF st.sentences # <<>> THEN "mcq" ELSE "shuffle"]

\* state = preprocess(text); candidates = []
Preprocess(c) ==
    /\ pc[c] = "start"
    /\ EnterLoop(c, preprocess(text[c]))
    /\ UNCHANGED <<text, num_questions, cand_idx, final_quiz, seen_questions, final_src,
                   mcq, tf_choices>>
    /\ UNCHANGED procVars

\* McqBuilt with the None of make_mcq_from_sentence leaving the loop as an
\* exception would
McqBuilt_AbortOnNone(c, q) ==
    IF q = None
    THEN /\ pc' = [pc EXCEPT ![c] = "raised"]
         /\ UNCHANGED mcq
    ELSE /\ pc' = [pc EXCEPT ![c] = "mcq_shuffle"]
         /\ mcq' = [mcq EXCEPT ![c] = q]

\* make_mcq_from_sentence returned None, or reaches its shuffle with item q
McqBuilt(c, q) ==
    IF q = None
    THEN /\ pc' = [pc EXCEPT ![c] = "coin"]
         /\ UNCHANGED mcq
    ELSE /\ pc' = [pc EXCEPT ![c] = "mcq_shuffle"]
         /\ mcq' = [mcq EXCEPT ![c] = q]

\* mcq = make_mcq_from_sentence(sent, state), up to its random.shuffle
McqBuild(c) ==
    /\ pc[c] = "mcq"
    /\ McqBuilt(c, make_mcq_from_sentence(CurSentence(c), state[c], McqDistractors))
    /\ UNCHANGED <<text, num_questions, state, sent_idx, candidates, cand_idx, final_quiz,
                   seen_questions, cand_src, final_src, tf_choices>>
    /\ UNCHANGED procVars

\* number of raw values the random.shuffle of make_mcq_from_sentence draws
McqShuffleNeeds(c) ==
    IF pc[c] = "mcq_shuffle" THEN ShuffleNeeds(Len(mcq[c].options)) ELSE 0

\* random.shuffle(options), the return of make_mcq_from_sentence, and
\* if mcq: candidates.append(mcq)
McqShuffle(c, raws) ==
    /\ pc[c] = "mcq_shuffle"
    /\ AppendCandidate(c, ShuffleOptions(mcq[c], raws))
    /\ mcq' = [mcq EXCEPT ![c] = None]
    /\ pc' = [pc EXCEPT ![c] = "coin"]
    /\ UNCHANGED <<text, num_questions, state, sent_idx, cand_idx, final_quiz,
                   seen_questions, final_src, tf_choices>>
    /\ UNCHANGED procVars

\* if random.random() < 0.5:
Coin(c, raw) ==
    /\ pc[c] = "coin"
    /\ IF CoinTakesTf(raw)
       THEN /\ pc' = [pc EXCEPT ![c] = "tf"]
            /\ UNCHANGED sent_idx
       ELSE AfterSentence(c)
    /\ UNCHANGED <<text, num_questions, state, candidates, cand_idx, final_quiz,
                   seen_questions, cand_src, final_src, mcq, tf_choices>>
    /\ UNCHANGED procVars

\* make_tf_from_sentence returns a truthful item (choices is empty), or
\* reaches random.choice(distractors) with distractors = choices
TfDrawn(c, choices) ==
    IF choices = <<>>
    THEN /\ AppendCandidate(c, TfTrue(CurSentence(c), state[c]))
         /\ AfterSentence(c)
         /\ UNCHANGED tf_choices
    ELSE /\ tf_choices' = [tf_choices EXCEPT ![c] = choices]
         /\ pc' = [pc EXCEPT ![c] = "tf_choice"]
         /\ UNCHANGED <<candidates, cand_src, sent_idx>>

\* tf = make_tf_from_sentence(sent, state), up to its random.choice
TfDraw(c, raw) ==
    /\ pc[c] = "tf"
    /\ TfDrawn(c, TfChoices(CurSentence(c), state[c], FalseProbDefault, raw))
    /\ UNCHANGED <<text, num_questions, state, cand_idx, final_quiz,
                   seen_questions, final_src, mcq>>
    /\ UNCHANGED procVars

\* replacement = random.choice(distractors), the return of
\* make_tf_from_sentence, and if tf: candidates.append(tf)
TfChoice(c, raw) ==
    /\ pc[c] = "tf_choice"
    /\ AppendCandidate(c, TfFalse(CurSentence(c), SwapTarget(CurSentence(c)),
                                  tf_choices[c], state[c], raw))
    /\ AfterSentence(c)
    /\ tf_choices' = [tf_choices EXCEPT ![c] = <<>>]
    /\ UNCHANGED <<text, num_questions, state, cand_idx, final_quiz,
                   seen_questions, final_src, mcq>>
    /\ UNCHANGED procVars

\* number of raw values random.shuffle(candidates) draws
PoolShuffleNeeds(c) == ShuffleNeeds(Len(candidates[c]))

\* random.shuffle(candidates); final_quiz = []; seen_questions = set()
ShufflePool(c, raws) ==
    /\ pc[c] = "shuffle"
    /\ candidates' = [candidates EXCEPT ![c] = Shuffle(@, raws)]
    /\ cand_src' = [cand_src EXCEPT ![c] = Shuffle(@, raws)]
    /\ final_quiz' = [final_quiz EXCEPT ![c] = <<>>]
    /\ final_src' = [final_src EXCEPT ![c] = <<>>]
    /\ seen_questions' = [seen_questions EXCEPT ![c] = {}]
    /\ cand_idx' = [cand_idx EXCEPT ![c] = 1]
    /\ pc' = [pc EXCEPT ![c] = "select"]
    /\ UNCHANGED <<text, num_questions, state, sent_idx, mcq, tf_choices>>
    /\ UNCHANGED procVars

\* NormQuestion with .lower() left out
NormQuestion_NoLower(q) == strip(q.question)

\* (q.get("question") or "").strip().lower()
NormQuestion(q) == lower(strip(q.question))

\* if "correct_answer" not in q and "answer" in q: q["correct_answer"] = q["answer"]
WithCorrectAnswer(q) ==
    IF "correct_answer" \notin DOMAIN q /\ "answer" \in DOMAIN q
    THEN q @@ ("correct_answer" :> q.answer)
    ELSE q

\* Consider with `q_text not in seen_questions` left out of its test
Consider_NoSeenCheck(c, q, q_text) ==
    IF q_text # EmptyStr
    THEN /\ seen_questions' = [seen_questions EXCEPT ![c] = @ \cup {q_text}]
         /\ final_quiz' = [final_quiz EXCEPT ![c] = Append(@, WithCorrectAnswer(q))]
         /\ final_src' = [final_src EXCEPT ![c] = Append(@, cand_src[c][cand_idx[c]])]
    ELSE UNCHANGED <<seen_questions, final_quiz, final_src>>

\* the body of `for q in candidates` after the break test, q_text computed
Consider(c, q, q_text) ==
    IF q_text # EmptyStr /\ q_text \notin seen_questions[c]
    THEN /\ seen_questions' = [seen_questions EXCEPT ![c] = @ \cup {q_text}]
         /\ final_quiz' = [final_quiz EXCEPT ![c] = Append(@, WithCorrectAnswer(q))]
         /\ final_src' = [final_src EXCEPT ![c] = Append(@, cand_src[c][cand_idx[c]])]
    ELSE UNCHANGED <<seen_questions, final_quiz, final_src>>

\* SelectStep with `if len(final_quiz) >= num_questions: break` left out
SelectStep_NoCountCheck(c) ==
    /\ pc[c] = "select"
    /\ cand_idx[c] <= Len(candidates[c])
    /\ Consider(c, candidates[c][cand_idx[c]], NormQuestion(candidates[c][cand_idx[c]]))
    /\ cand_idx' = [cand_idx EXCEPT ![c] = @ + 1]
    /\ UNCHANGED <<pc, text, num_questions, state, sent_idx, candidates, cand_src,
                   mcq, tf_choices>>
    /\ UNCHANGED procVars

\* one iteration of `for q in candidates` that does not break
SelectStep(c) ==
    /\ pc[c] = "select"
    /\ cand_idx[c] <= Len(candidates[c])
    /\ ~(Len(final_quiz[c]) >= num_questions[c])
    /\ Consider(c, candidates[c][cand_idx[c]], NormQuestion(candidates[c][cand_idx[c]]))
    /\ cand_idx' = [cand_idx EXCEPT ![c] = @ + 1]
    /\ UNCHANGED <<pc, text, num_questions, state, sent_idx, candidates, cand_src,
                   mcq, tf_choices>>
    /\ UNCHANGED procVars

\* the loop breaks or ends: return final_quiz
Return(c) ==
    /\ pc[c] = "select"
    /\ \/ cand_idx[c] > Len(candidates[c])
       \/ Len(final_quiz[c]) >= num_questions[c]
    /\ pc' = [pc EXCEPT ![c] = "done"]
    /\ UNCHANGED <<text, num_questions, state, sent_idx, candidates, cand_idx,
                   final_quiz, seen_questions, cand_src, final_src, mcq, tf_choices>>
    /\ UNCHANGED procVars

\* the locals of the calls before create_quiz_from_text is entered
CallsIdle ==
    /\ state = [c \in Calls |-> EmptyState]
    /\ sent_idx = [c \in Calls |-> 1]
    /\ candidates = [c \in Calls |-> <<>>]
    /\ cand_idx = [c \in Calls |-> 1]
    /\ final_quiz = [c \in Calls |-> <<>>]
    /\ seen_questions = [c \in Calls |-> {}]
    /\ cand_src = [c \in Calls |-> <<>>]
    /\ final_src = [c \in Calls |-> <<>>]
    /\ mcq = [c \in Calls |-> None]
    /\ tf_choices = [c \in Calls |-> <<>>]
    /\ draws = [c \in Calls |-> <<>>]

\* no call of make_distractors from outside the pipeline
NoDistractorCall == [pc |-> "idle"]
\* no call of the other entry points
NoCall == [pc |-> "idle"]
\* an empty database, no request of register or process_video
DbIdle ==
    /\ users_col = <<>>
    /\ video_summaries_col = <<>>
    /\ unique_indexes = {}
    /\ requests = [c \in Calls |-> NoCall]
    /\ recorded = <<>>
OthersIdle == tf_call = NoCall /\ sq_call = NoCall /\ gt_call = NoCall /\ DbIdle

(***************************************************************************)
(* Spec: one call, every outcome of the random draws                       *)
(***************************************************************************)
\* k raw values, wide enough for every outcome of a shuffle of k+1 entries
RawSeqs(k) == [1..k -> 0..k]
\* the raw values of one random.random()
FloatRaws == 0..(RScale - 1)
\* the raw values of one random.choice among at most TfDistractors entries
ChoiceRaws == 0..(TfDistractors - 1)

Init ==
    /\ nlp \in Parsers
    /\ wn \in {WnNone, WordNetExcerpt, WordNetBank}
    /\ hashOrder \in Orders(SetNames(wn))
    /\ rng = 0
    /\ seed = 0
    /\ \E inp \in Inputs, n \in Counts :
          /\ Parseable(inp, nlp)
          /\ text = [c \in Calls |-> inp]
          /\ num_questions = [c \in Calls |-> n]
    /\ pc = [c \in Calls |-> IF c = 1 THEN "start" ELSE "idle"]
    /\ CallsIdle
    /\ md_call = NoDistractorCall
    /\ OthersIdle

Next ==
    \E c \in Calls :
        \/ Preprocess(c) /\ UNCHANGED <<rng, draws, outside>>
        \/ McqBuild(c) /\ UNCHANGED <<rng, draws, outside>>
        \/ \E raws \in RawSeqs(McqShuffleNeeds(c)) :
              McqShuffle(c, raws) /\ UNCHANGED <<rng, draws, outside>>
        \/ \E raw \in FloatRaws : Coin(c, raw) /\ UNCHANGED <<rng, draws, outside>>
        \/ \E raw \in FloatRaws : TfDraw(c, raw) /\ UNCHANGED <<rng, draws, outside>>
        \/ \E raw \in ChoiceRaws : TfChoice(c, raw) /\ UNCHANGED <<rng, draws, outside>>
        \/ \E raws \in RawSeqs(PoolShuffleNeeds(c)) :
              ShufflePool(c, raws) /\ UNCHANGED <<rng, draws, outside>>
        \/ SelectStep(c) /\ UNCHANGED <<rng, draws, outside>>
        \/ Return(c) /\ UNCHANGED <<rng, draws, outside>>

Spec == Init /\ [][Next]_vars

\* SpecFair: one call in heuristic mode; the interpreter goes on executing a
\* call that has not returned
FairTexts == {EmptyStr, TextMoon, TextSanta, TextNotes}
InitFair ==
    /\ nlp = NlpNone
    /\ wn = WnNone
    /\ hashOrder = <<>>
    /\ rng = 0
    /\ seed = 0
    /\ \E t \in FairTexts, n \in 0..MaxN :
          /\ text = [c \in Calls |-> [kind |-> "str", val |-> t]]
          /\ num_questions = [c \in Calls |-> n]
    /\ pc = [c \in Calls |-> IF c = 1 THEN "start" ELSE "idle"]
    /\ CallsIdle
    /\ md_call = NoDistractorCall
    /\ OthersIdle

\* the statement a call is at
Locations == {"start", "mcq", "mcq_shuffle", "coin", "tf", "tf_choice", "shuffle",
              "select", "done", "raised"}
\* call c is entered and has not returned
Running(c) == pc[c] \notin {"idle", "done", "raised"}

\* the interpreter executes the next statement of a running call: the call
\* moves to another statement, or to the next entry of `for q in candidates`
Executes ==
    \E c \in Calls :
        /\ Running(c)
        /\ \E loc \in Locations, k \in {0, 1} :
              /\ pc' = [pc EXCEPT ![c] = loc]
              /\ cand_idx' = [cand_idx EXCEPT ![c] = @ + k]

SpecFair == InitFair /\ [][Next]_vars /\ WF_<<pc, cand_idx>>(Executes)

(***************************************************************************)
(* The module-level generator of random, seeded by the caller              *)
(***************************************************************************)
\* the states of the generator (a linear congruential generator stands for
\* the Mersenne Twister of random)
RngModulus == 16
RngStates == 0..(RngModulus - 1)
RngNext(x) == (5 * x + 3) % RngModulus
\* the raw value a draw returns in state x
RngOut(x) == (x \div 4) % RScale

RECURSIVE RngIter(_, _)
\* the state of the generator after k draws from state x
RngIter(x, k) == IF k = 0 THEN x ELSE RngIter(RngNext(x), k - 1)

\* the states the generator is in at the next k draws
RngReads(x, k) == [i \in 1..k |-> RngIter(x, i - 1)]
\* the raw values of the next k draws
RngDraws(x, k) == [i \in 1..k |-> RngOut(RngIter(x, i - 1))]

\* call c takes the next k draws of the shared generator
Drawn(c, k) ==
    /\ rng' = RngIter(rng, k)
    /\ draws' = [draws EXCEPT ![c] = @ \o RngReads(rng, k)]
    /\ UNCHANGED outside

SeededMcqShuffle(c) ==
    McqShuffle(c, RngDraws(rng, McqShuffleNeeds(c))) /\ Drawn(c, McqShuffleNeeds(c))
SeededCoin(c) == Coin(c, RngOut(rng)) /\ Drawn(c, 1)
SeededTfDraw(c) == TfDraw(c, RngOut(rng)) /\ Drawn(c, 1)
SeededTfChoice(c) == TfChoice(c, RngOut(rng)) /\ Drawn(c, 1)
SeededShufflePool(c) ==
    ShufflePool(c, RngDraws(rng, PoolShuffleNeeds(c))) /\ Drawn(c, PoolShuffleNeeds(c))

\* one step of call c, its draws taken from the module-level generator
SeededStep(c) ==
    \/ Preprocess(c) /\ UNCHANGED <<rng, draws, outside>>
    \/ McqBuild(c) /\ UNCHANGED <<rng, draws, outside>>
    \/ SeededMcqShuffle(c)
    \/ SeededCoin(c)
    \/ SeededTfDraw(c)
    \/ SeededTfChoice(c)
    \/ SeededShufflePool(c)
    \/ SelectStep(c) /\ UNCHANGED <<rng, draws, outside>>
    \/ Return(c) /\ UNCHANGED <<rng, draws, outside>>

\* texts of the seeded runs
SeededTexts == {TextSanta, TextMoonTwice}

(***************************************************************************)
(* SpecSeeded: random.seed(seed); create_quiz_from_text(text, n), twice    *)
(***************************************************************************)
InitSeeded ==
    /\ nlp = NlpNone
    /\ wn \in {WnNone, WordNetExcerpt}
    /\ hashOrder \in Orders(SetNames(wn))
    /\ seed \in RngStates
    /\ rng = seed
    /\ \E t \in SeededTexts, n \in 1..MaxN :
          /\ text = [c \in Calls |-> [kind |-> "str", val |-> t]]
          /\ num_questions = [c \in Calls |-> n]
    /\ pc = [c \in Calls |-> IF c = 1 THEN "start" ELSE "idle"]
    /\ CallsIdle
    /\ md_call = NoDistractorCall
    /\ OthersIdle

\* the first call returned; the same process calls random.seed(seed) and
\* create_quiz_from_text(text, n) again
Reseed ==
    /\ pc[1] = "done"
    /\ pc[2] = "idle"
    /\ rng' = seed
    /\ pc' = [pc EXCEPT ![2] = "start"]
    /\ UNCHANGED <<nlp, wn, hashOrder, seed, text, num_questions, state, sent_idx,
                   candidates, cand_idx, final_quiz, seen_questions, cand_src,
                   final_src, mcq, tf_choices, draws, outside>>

\* the first call returned; the program is started again with the same
\* backends and calls random.seed(seed) and create_quiz_from_text(text, n).
\* The hashes of str, hence the iteration order of a set of str, are drawn
\* anew by the interpreter.
RestartProcess ==
    /\ pc[1] = "done"
    /\ pc[2] = "idle"
    /\ hashOrder' \in Orders(SetNames(wn))
    /\ rng' = seed
    /\ pc' = [pc EXCEPT ![2] = "start"]
    /\ UNCHANGED <<nlp, wn, seed, text, num_questions, state, sent_idx,
                   candidates, cand_idx, final_quiz, seen_questions, cand_src,
                   final_src, mcq, tf_choices, draws, outside>>

NextSeeded ==
    \/ \E c \in Calls : SeededStep(c)
    \/ Reseed
    \/ RestartProcess

SpecSeeded == InitSeeded /\ [][NextSeeded]_vars

(***************************************************************************)
(* SpecConc: two calls of create_quiz_from_text in two threads             *)
(***************************************************************************)
\* texts of the concurrent calls
ConcTexts == {TextSanta, TextMoon}

InitConc ==
    /\ nlp = NlpNone
    /\ wn = WnNone
    /\ hashOrder = <<>>
    /\ seed \in RngStates
    /\ rng = seed
    /\ \E t1 \in ConcTexts, t2 \in ConcTexts :
          text = [c \in Calls |-> [kind |-> "str", val |-> IF c = 1 THEN t1 ELSE t2]]
    /\ num_questions = [c \in Calls |-> MaxN]
    /\ pc = [c \in Calls |-> "start"]
    /\ CallsIdle
    /\ md_call = NoDistractorCall
    /\ OthersIdle

NextConc == \E c \in Calls : SeededStep(c)

SpecConc == InitConc /\ [][NextConc]_vars

(***************************************************************************)
(* SpecDistr: make_distractors on its own                                  *)
(***************************************************************************)
\* "Santa Claus", "Santa", "jolly", "Moon", ""
AnsSantaClaus == <<"S","a","n","t","a"," ","C","l","a","u","s">>
AnsSanta == <<"S","a","n","t","a">>
AnsJolly == <<"j","o","l","l","y">>
AnsMoon == <<"M","o","o","n">>
AnsTheLake == <<"t","h","e"," ","l","a","k","e">>
DistrAnswers == {AnsSantaClaus, AnsSanta, AnsJolly, AnsMoon, AnsTheLake, EmptyStr}

\* the annotations of "we saw snow on the lake.": the noun chunks "we", "snow"
\* and "the lake", the nouns snow and lake
SnowDoc ==
    [sents |-> <<<<"w","e"," ","s","a","w"," ","s","n","o","w"," ","o","n"," ",
                   "t","h","e"," ","l","a","k","e",".">>>>,
     noun_chunks |-> <<<<"w","e">>, <<"s","n","o","w">>, AnsTheLake>>,
     ents |-> <<>>,
     tokens |-> <<Tok(<<"w","e">>, <<"w","e">>, "PRON", TRUE),
                  Tok(<<"s","a","w">>, <<"s","e","e">>, "VERB", FALSE),
                  Tok(<<"s","n","o","w">>, <<"s","n","o","w">>, "NOUN", FALSE),
                  Tok(<<"o","n">>, <<"o","n">>, "ADP", TRUE),
                  Tok(<<"t","h","e">>, <<"t","h","e">>, "DET", TRUE),
                  Tok(<<"l","a","k","e">>, <<"l","a","k","e">>, "NOUN", FALSE),
                  Tok(<<".">>, <<".">>, "PUNCT", FALSE)>>]

\* states as preprocess returns them: the empty one, two of the heuristic, and
\* two with the noun chunks of a parser
DistrStates ==
    {EmptyState, HeuristicState(TextSanta), HeuristicState(TextMoon),
     ParsedState(NlpChunks.parse[TextSanta]), ParsedState(SnowDoc)}

\* largest n of the enumerated calls of make_distractors (make_tf_from_sentence
\* asks for 5)
MaxCount == 5
DistrCounts == -1..MaxCount

InitDistr ==
    /\ nlp = NlpNone
    /\ wn \in {WnNone, WordNetExcerpt}
    /\ hashOrder \in Orders(SetNames(wn))
    /\ rng = 0
    /\ seed = 0
    /\ text = [c \in Calls |-> [kind |-> "str", val |-> EmptyStr]]
    /\ num_questions = [c \in Calls |-> 0]
    /\ pc = [c \in Calls |-> "idle"]
    /\ CallsIdle
    /\ \E a \in DistrAnswers, st \in DistrStates, n \in DistrCounts :
          md_call = [pc |-> "call", answer |-> a, state |-> st, n |-> n]
    /\ OthersIdle

\* ret = make_distractors(answer, state, n)
CallMakeDistractors ==
    /\ md_call.pc = "call"
    /\ md_call' = [pc |-> "ret", answer |-> md_call.answer, state |-> md_call.state,
                   n |-> md_call.n,
                   ret |-> make_distractors(md_call.answer, md_call.state, md_call.n)]
    /\ UNCHANGED <<pipeVars, tf_call, sq_call, gt_call, dbVars>>

NextDistr == CallMakeDistractors

SpecDistr == InitDistr /\ [][NextDistr]_vars

(***************************************************************************)
(* SpecTf: make_tf_from_sentence on its own                                *)
(***************************************************************************)
\* false_prob = 0, and false_prob = 1
FalseProbZero == [num |-> 0, den |-> 1]
FalseProbOne == [num |-> 1, den |-> 1]
FalseProbs == {FalseProbZero, FalseProbDefault, FalseProbOne}

\* "The plants make food from light." has no capitalized word of 4 letters
TfSentences == {TextSanta, TextMoon, simple_sent_split(TextFive)[1]}
TfStates == {EmptyState, HeuristicState(TextSanta), HeuristicState(TextMoon)}

InitTf ==
    /\ nlp = NlpNone
    /\ wn \in {WnNone, WordNetExcerpt}
    /\ hashOrder \in Orders(SetNames(wn))
    /\ rng = 0
    /\ seed = 0
    /\ text = [c \in Calls |-> [kind |-> "str", val |-> EmptyStr]]
    /\ num_questions = [c \in Calls |-> 0]
    /\ pc = [c \in Calls |-> "idle"]
    /\ CallsIdle
    /\ md_call = NoDistractorCall
    /\ sq_call = NoCall
    /\ gt_call = NoCall
    /\ DbIdle
    /\ \E sentence \in TfSentences, st \in TfStates, false_prob \in FalseProbs :
          tf_call = [pc |-> "call", sentence |-> sentence, state |-> st,
                     false_prob |-> false_prob]

\* the call after `if random.random() > false_prob` and the tests that follow
\* it: returned with the truthful item, or at random.choice(distractors)
TfAfterDraw(call, raw, choices) ==
    [pc |-> IF choices = <<>> THEN "ret" ELSE "choice",
     sentence |-> call.sentence, state |-> call.state, false_prob |-> call.false_prob,
     raw |-> raw,
     truthful |-> TfTruthful(raw, call.false_prob),
     choices |-> choices,
     ret |-> IF choices = <<>> THEN TfTrue(call.sentence, call.state) ELSE None]

\* make_tf_from_sentence(sentence, state, false_prob) up to its random.choice
CallTfDraw(raw) ==
    /\ tf_call.pc = "call"
    /\ tf_call' = TfAfterDraw(tf_call, raw,
                              TfChoices(tf_call.sentence, tf_call.state,
                                        tf_call.false_prob, raw))
    /\ UNCHANGED <<pipeVars, md_call, sq_call, gt_call, dbVars>>

\* replacement = random.choice(distractors) and the return of the false item
CallTfChoice(raw) ==
    /\ tf_call.pc = "choice"
    /\ tf_call' = [tf_call EXCEPT
                      !.pc = "ret",
                      !.ret = TfFalse(tf_call.sentence, SwapTarget(tf_call.sentence),
                                      tf_call.choices, tf_call.state, raw)]
    /\ UNCHANGED <<pipeVars, md_call, sq_call, gt_call, dbVars>>

NextTf ==
    \/ \E raw \in FloatRaws : CallTfDraw(raw)
    \/ \E raw \in ChoiceRaws : CallTfChoice(raw)

SpecTf == InitTf /\ [][NextTf]_vars

(***************************************************************************)
(* SpecGrade: submit_quiz (app.py)                                         *)
(***************************************************************************)
\* JSON values of the request: strings, null, true
JStr(chars) == [kind |-> "str", val |-> chars]
JNull == [kind |-> "NoneType"]
JTrue == [kind |-> "bool", val |-> TRUE]

\* str(v)
PyStr(v) ==
    CASE v.kind = "str" -> v.val
      [] v.kind = "bool" -> IF v.val THEN StrTrue ELSE StrFalse
      [] OTHER -> NoneStr

\* q.get(key)
DictGet(q, key) == IF key \in DOMAIN q THEN q[key] ELSE JNull

\* (str(user_ans) if user_ans is not None else "").strip()
UserAnsStr(user_ans) == IF user_ans = JNull THEN EmptyStr ELSE strip(PyStr(user_ans))

\* IsCorrect with the two .lower() left out
IsCorrect_NoLower(user_ans, correct_ans) ==
    UserAnsStr(user_ans) = strip(PyStr(correct_ans))

\* user_ans_str.lower() == str(correct_ans).strip().lower()
IsCorrect(user_ans, correct_ans) ==
    lower(UserAnsStr(user_ans)) = lower(strip(PyStr(correct_ans)))

General == <<"G","e","n","e","r","a","l">>

\* v or d, for v a str or None
StrOr(v, d) == IF v = JNull \/ v = JStr(EmptyStr) THEN d ELSE PyStr(v)

\* (q.get('question') or q.get('prompt') or '').strip()
QuestionText(q) ==
    strip(StrOr(DictGet(q, "question"), StrOr(DictGet(q, "prompt"), EmptyStr)))

\* (q.get('topic') or 'General').strip() or 'General'
TopicOf(q) ==
    IF strip(StrOr(DictGet(q, "topic"), General)) = EmptyStr THEN General
    ELSE strip(StrOr(DictGet(q, "topic"), General))

\* the counters and the lists after one more pair of zip(quiz, answers);
\* acc.now is the time datetime.utcnow() returns during the request
GradeOne(acc, q, user_ans, correct_ans) ==
    IF correct_ans = JNull THEN acc
    ELSE IF IsCorrect(user_ans, correct_ans)
    THEN [acc EXCEPT !.graded_total = @ + 1, !.correct = @ + 1]
    ELSE [acc EXCEPT !.graded_total = @ + 1,
                     !.mistakes_docs = Append(@, [topic |-> TopicOf(q),
                                                  question |-> QuestionText(q),
                                                  given |-> UserAnsStr(user_ans),
                                                  correct |-> correct_ans,
                                                  time |-> acc.now]),
                     !.weak_topic_docs = Append(@, [topic |-> TopicOf(q),
                                                    question |-> QuestionText(q),
                                                    time |-> acc.now])]

RECURSIVE GradeFrom(_, _, _, _)
\* for q, user_ans in zip(quiz, answers), from pair i on
GradeFrom(quiz, answers, i, acc) ==
    IF i > Len(quiz) \/ i > Len(answers) THEN acc
    ELSE GradeFrom(quiz, answers, i + 1,
                   GradeOne(acc, quiz[i], answers[i], DictGet(quiz[i], "correct_answer")))

\* the counters and the lists when the loop of submit_quiz ends
Graded(quiz, answers, now) ==
    GradeFrom(quiz, answers, 1,
              [graded_total |-> 0, correct |-> 0, mistakes_docs |-> <<>>,
               weak_topic_docs |-> <<>>, now |-> now])

\* Python xs[-n:], n > 0
LastN(xs, n) == SubSeq(xs, IF Len(xs) > n THEN Len(xs) - n + 1 ELSE 1, Len(xs))

\* the response once the loop ended with counters acc
GradedResponse(acc) ==
    IF acc.graded_total = 0
    THEN [status |-> 400, error |-> "No gradable questions found in quiz."]
    ELSE [status |-> 200, total |-> acc.graded_total, correct |-> acc.correct,
          points_awarded |-> acc.correct * 10,
          incorrect_preview |-> LastN(acc.mistakes_docs, 10)]

\* the response of submit_quiz, acc being the outcome of its loop
SubmitResponse(quiz, answers, user_found, acc) ==
    IF quiz = <<>> \/ answers = <<>> \/ Len(quiz) # Len(answers)
    THEN [status |-> 400,
          error |-> "quiz and answers are required and must have the same length."]
    ELSE IF ~user_found THEN [status |-> 404, error |-> "User not found"]
    ELSE GradedResponse(acc)

\* a document of the collection users
UserDoc(id, email) ==
    [_id |-> id, email |-> email, points |-> 0, summarize_count |-> 0,
     recent_topics |-> <<>>, saved_summaries |-> <<>>, incorrect_topics |-> <<>>]

\* users_col.find_one({'_id': id}): the position of the document, 0 for None
FindUserById(id) ==
    IF \E i \in 1..Len(users_col) : users_col[i]._id = id
    THEN MinOf({i \in 1..Len(users_col) : users_col[i]._id = id}) ELSE 0

\* the entries $slice: -10 keeps
WeakTopicsKept == 10

\* PushSliceLast with '$slice': keep, which keeps the first entries
PushSliceLast_KeepFirst(list, docs, keep) ==
    SubSeq(list \o docs, 1, IF Len(list \o docs) < keep THEN Len(list \o docs) ELSE keep)

\* {'$push': {field: {'$each': docs, '$slice': -keep}}} on a list
PushSliceLast(list, docs, keep) == LastN(list \o docs, keep)

\* the documents submit_quiz pushes: weak_topic_docs when the request is
\* graded, none when it is answered 400 or 404 before
DocsToPush(resp, acc) == IF resp.status = 200 THEN acc.weak_topic_docs ELSE <<>>

\* longest quiz of the enumerated requests
MaxQuiz == 3
\* questions of a request: with correct_answer "True", "False ", null, or none
GradeQuestions ==
    {[type |-> "tf", correct_answer |-> JStr(StrTrue)],
     [type |-> "tf", correct_answer |-> JStr(StrFalse \o <<" ">>)],
     [type |-> "tf", correct_answer |-> JNull],
     [type |-> "tf"]}
\* answers of a request: " true ", "False", true, null
GradeAnswers == {JStr(<<" ">> \o lower(StrTrue) \o <<" ">>), JStr(StrFalse), JTrue, JNull}
SeqsUpTo(S, k) == UNION {[1..m -> S] : m \in 0..k}

\* the user of the requests
EmailAlice == <<"a","@","b",".","c">>

InitGrade ==
    /\ nlp = NlpNone
    /\ wn = WnNone
    /\ hashOrder = <<>>
    /\ rng = 0
    /\ seed = 0
    /\ text = [c \in Calls |-> [kind |-> "str", val |-> EmptyStr]]
    /\ num_questions = [c \in Calls |-> 0]
    /\ pc = [c \in Calls |-> "idle"]
    /\ CallsIdle
    /\ md_call = NoDistractorCall
    /\ tf_call = NoCall
    /\ gt_call = NoCall
    /\ users_col = <<UserDoc(1, EmailAlice)>>
    /\ video_summaries_col = <<>>
    /\ unique_indexes = {}
    /\ requests = [c \in Calls |-> NoCall]
    /\ recorded = <<>>
    /\ \E quiz \in SeqsUpTo(GradeQuestions, MaxQuiz), answers \in SeqsUpTo(GradeAnswers, MaxQuiz),
          identity \in {1, 2} :
          sq_call = [pc |-> "call", quiz |-> quiz, answers |-> answers,
                     identity |-> identity, now |-> 1]

\* submit_quiz from its response on: the update of the user (persisted says
\* whether update_one succeeded; its exception is logged and dropped)
SubmitQuizDone(user, resp, docs, persisted) ==
    /\ sq_call' = [pc |-> "ret", quiz |-> sq_call.quiz, answers |-> sq_call.answers,
                   identity |-> sq_call.identity, now |-> sq_call.now, resp |-> resp]
    /\ IF docs # <<>> /\ persisted
       THEN /\ users_col' = [users_col EXCEPT ![user].incorrect_topics =
                                PushSliceLast(@, docs, WeakTopicsKept)]
            /\ recorded' = recorded \o docs
       ELSE UNCHANGED <<users_col, recorded>>

\* submit_quiz once the user is looked up and the loop has run
SubmitQuizGraded(user, acc, persisted) ==
    SubmitQuizDone(user,
                   SubmitResponse(sq_call.quiz, sq_call.answers, user # 0, acc),
                   DocsToPush(SubmitResponse(sq_call.quiz, sq_call.answers, user # 0, acc), acc),
                   persisted)

\* POST /api/submit-quiz
SubmitQuiz ==
    /\ sq_call.pc = "call"
    /\ \E persisted \in BOOLEAN :
          SubmitQuizGraded(FindUserById(sq_call.identity),
                           Graded(sq_call.quiz, sq_call.answers, sq_call.now), persisted)
    /\ UNCHANGED <<pipeVars, md_call, tf_call, gt_call, video_summaries_col,
                   unique_indexes, requests>>

NextGrade == SubmitQuiz

SpecGrade == InitGrade /\ [][NextGrade]_vars

(***************************************************************************)
(* SpecSubmits: a sequence of requests of submit_quiz by one user          *)
(***************************************************************************)
\* number of requests of the longest sequence
MaxRequests == 5

QMoon ==
    [type |-> "mcq", question |-> JStr(<<"t","h","e"," ","_","_","_","_","_","_">>),
     topic |-> JStr(<<"m","o","o","n">>), correct_answer |-> JStr(AnsMoon)]
QLake ==
    [type |-> "mcq", question |-> JStr(<<"o","n"," ","_","_","_","_","_","_">>),
     topic |-> JStr(<<" ","l","a","k","e"," ">>), correct_answer |-> JStr(<<"l","a","k","e">>)]
\* an item without topic
QTrue == [type |-> "tf", question |-> JStr(TextMoon), correct_answer |-> JStr(StrTrue)]
\* an item without correct_answer
QUngraded == [type |-> "tf", question |-> JStr(TextMoon)]

\* the bodies of the requests: the quiz, the answers, the identity of the token
SubmitBodies ==
    {[quiz |-> <<QMoon>>, answers |-> <<JStr(<<"m","o","o","n"," ">>)>>, identity |-> 1],
     [quiz |-> <<QMoon>>, answers |-> <<JStr(<<"l","a","k","e">>)>>, identity |-> 1],
     [quiz |-> <<QMoon, QLake>>, answers |-> <<JStr(AnsMoon), JStr(AnsMoon)>>, identity |-> 1],
     [quiz |-> <<QMoon, QLake, QTrue>>, answers |-> <<JNull, JStr(AnsMoon), JStr(StrFalse)>>,
      identity |-> 1],
     [quiz |-> <<QMoon, QLake, QTrue>>, answers |-> <<JNull, JStr(AnsMoon), JStr(StrFalse)>>,
      identity |-> 2],
     [quiz |-> <<QUngraded>>, answers |-> <<JStr(StrFalse)>>, identity |-> 1]}

InitSubmits ==
    /\ nlp = NlpNone
    /\ wn = WnNone
    /\ hashOrder = <<>>
    /\ rng = 0
    /\ seed = 0
    /\ text = [c \in Calls |-> [kind |-> "str", val |-> EmptyStr]]
    /\ num_questions = [c \in Calls |-> 0]
    /\ pc = [c \in Calls |-> "idle"]
    /\ CallsIdle
    /\ md_call = NoDistractorCall
    /\ tf_call = NoCall
    /\ gt_call = NoCall
    /\ users_col = <<UserDoc(1, EmailAlice)>>
    /\ video_summaries_col = <<>>
    /\ unique_indexes = {}
    /\ requests = [c \in Calls |-> NoCall]
    /\ recorded = <<>>
    /\ \E body \in SubmitBodies :
          sq_call = [pc |-> "call", quiz |-> body.quiz, answers |-> body.answers,
                     identity |-> body.identity, now |-> 1]

\* the next request arrives once the last one is answered
NextRequest ==
    /\ sq_call.pc = "ret"
    /\ sq_call.now < MaxRequests
    /\ \E body \in SubmitBodies :
          sq_call' = [pc |-> "call", quiz |-> body.quiz, answers |-> body.answers,
                      identity |-> body.identity, now |-> sq_call.now + 1]
    /\ UNCHANGED <<pipeVars, md_call, tf_call, gt_call, dbVars>>

NextSubmits == SubmitQuiz \/ NextRequest

SpecSubmits == InitSubmits /\ [][NextSubmits]_vars

(***************************************************************************)
(* SpecRegister: concurrent requests of register (app.py)                  *)
(***************************************************************************)
\* requests each worker serves at most
MaxRegister == 2

\* the emails of the request bodies: " A@b.c ", "a@b.c", "x@y.z", and none
RegisterEmails ==
    {JStr(<<" ","A","@","b",".","c"," ">>), JStr(EmailAlice),
     JStr(<<"x","@","y",".","z">>), JNull}
\* the passwords of the request bodies
RegisterPasswords == {JStr(<<"p","w">>), JNull}

\* (data.get('email') or "").strip().lower()
NormalizedEmail(v) == lower(strip(StrOr(v, EmptyStr)))

\* users_col.find_one({'email': email}) finds a document
EmailFound(email) == \E i \in 1..Len(users_col) : users_col[i].email = email

\* the requests the worker has served so far
Served(c) == IF requests[c].pc = "idle" THEN 0 ELSE requests[c].n

\* the deployments: without index, or with unique indexes on users.email and
\* video_summaries.video_id
IndexSets == {{}, {"email", "video_id"}}

InitRegister ==
    /\ nlp = NlpNone
    /\ wn = WnNone
    /\ hashOrder = <<>>
    /\ rng = 0
    /\ seed = 0
    /\ text = [c \in Calls |-> [kind |-> "str", val |-> EmptyStr]]
    /\ num_questions = [c \in Calls |-> 0]
    /\ pc = [c \in Calls |-> "idle"]
    /\ CallsIdle
    /\ md_call = NoDistractorCall
    /\ tf_call = NoCall
    /\ sq_call = NoCall
    /\ gt_call = NoCall
    /\ users_col = <<>>
    /\ video_summaries_col = <<>>
    /\ unique_indexes \in IndexSets
    /\ requests = [c \in Calls |-> NoCall]
    /\ recorded = <<>>

\* register up to `if not email or not password`: 400, or on to find_one.
\* existed (history) tells whether the email was registered at that time.
RegisterReceive(c, email, password) ==
    /\ requests[c].pc \in {"idle", "done"}
    /\ Served(c) < MaxRegister
    /\ requests' = [requests EXCEPT ![c] =
          [pc |-> IF NormalizedEmail(email) = EmptyStr \/ password = JNull
                     \/ password = JStr(EmptyStr)
                  THEN "done" ELSE "find",
           handler |-> "register",
           n |-> Served(c) + 1,
           email |-> NormalizedEmail(email),
           existed |-> EmailFound(NormalizedEmail(email)),
           inserted |-> 0,
           status |-> IF NormalizedEmail(email) = EmptyStr \/ password = JNull
                         \/ password = JStr(EmptyStr)
                      THEN 400 ELSE 0]]
    /\ UNCHANGED <<pipeVars, md_call, tf_call, sq_call, gt_call, users_col,
                   video_summaries_col, unique_indexes, recorded>>

\* if users_col.find_one({'email': email}): return 409
RegisterFind(c) ==
    /\ requests[c].pc = "find"
    /\ requests' = [requests EXCEPT ![c] =
          IF EmailFound(requests[c].email)
          THEN [@ EXCEPT !.pc = "done", !.status = 409]
          ELSE [@ EXCEPT !.pc = "insert"]]
    /\ UNCHANGED <<pipeVars, md_call, tf_call, sq_call, gt_call, users_col,
                   video_summaries_col, unique_indexes, recorded>>

\* result = users_col.insert_one(user_doc): 201; under a unique index on
\* email the insertion of a second document raises DuplicateKeyError, which
\* no handler catches (500)
RegisterInsert(c) ==
    /\ requests[c].pc = "insert"
    /\ IF "email" \in unique_indexes /\ EmailFound(requests[c].email)
       THEN /\ requests' = [requests EXCEPT ![c].pc = "done", ![c].status = 500]
            /\ UNCHANGED users_col
       ELSE /\ users_col' = Append(users_col,
                                   UserDoc(Len(users_col) + 1, requests[c].email))
            /\ requests' = [requests EXCEPT ![c].pc = "done", ![c].status = 201,
                                            ![c].inserted = Len(users_col) + 1]
    /\ UNCHANGED <<pipeVars, md_call, tf_call, sq_call, gt_call,
                   video_summaries_col, unique_indexes, recorded>>

NextRegister ==
    \E c \in Calls :
        \/ \E email \in RegisterEmails, password \in RegisterPasswords :
              RegisterReceive(c, email, password)
        \/ RegisterFind(c)
        \/ RegisterInsert(c)

SpecRegister == InitRegister /\ [][NextRegister]_vars

(***************************************************************************)
(* SpecVideo: concurrent requests of process_video (app.py)                *)
(***************************************************************************)
\* requests each worker serves at most
MaxVideo == 2

DigitSet == {"0", "1", "2", "3", "4", "5", "6", "7", "8", "9"}
\* [A-Za-z0-9_-]
IdCharSet == AlphaSet \cup DigitSet \cup {"_", "-"}

\* ([A-Za-z0-9_-]{11}) at index i: the group, or None
IdAt(s, i) ==
    IF i >= 1 /\ i + 10 <= Len(s) /\ \A k \in 0..10 : s[i + k] \in IdCharSet
    THEN SubSeq(s, i, i + 10) ELSE NoneStr

\* watch\?(?:.*&)?v=([A-Za-z0-9_-]{11}) with "watch?" ending before index w:
\* the greedy .* stops at the last "&v=" that an id follows, else "v=" is at w
WatchIdAt(s, w) ==
    LET amps == {q \in w..Len(s) : /\ s[q] = "&"
                                   /\ MatchAt(<<"v","=">>, s, q + 1)
                                   /\ IdAt(s, q + 3) # NoneStr}
    IN  IF amps # {} THEN IdAt(s, MaxOf(amps) + 3)
        ELSE IF MatchAt(<<"v","=">>, s, w) THEN IdAt(s, w + 2)
        ELSE NoneStr

\* YOUTUBE_ID_RE matched at index p: its group, or None
YoutubeIdAt(s, p) ==
    IF MatchAt(<<"y","o","u","t","u",".","b","e","/">>, s, p) THEN IdAt(s, p + 9)
    ELSE IF ~MatchAt(<<"y","o","u","t","u","b","e",".","c","o","m","/">>, s, p) THEN NoneStr
    ELSE IF MatchAt(<<"w","a","t","c","h","?">>, s, p + 12) THEN WatchIdAt(s, p + 18)
    ELSE IF MatchAt(<<"e","m","b","e","d","/">>, s, p + 12) THEN IdAt(s, p + 18)
    ELSE IF MatchAt(<<"v","/">>, s, p + 12) THEN IdAt(s, p + 14)
    ELSE NoneStr

\* extract_youtube_id(url): YOUTUBE_ID_RE.search(url).group(1), or None.  (The
\* urlparse fallback applies to a url whose host ends with youtube.com and
\* that has a query parameter v of 11 characters; the one url of the model
\* that the pattern does not match has the host youtu.be.)
extract_youtube_id(url) ==
    LET starts == {p \in 1..Len(url) : YoutubeIdAt(url, p) # NoneStr}
    IN  IF starts = {} THEN NoneStr ELSE YoutubeIdAt(url, MinOf(starts))

\* the urls of the request bodies:
\* "https://youtu.be/dQw4w9WgXcQ", the same video as
\* " https://www.youtube.com/watch?t=1&v=dQw4w9WgXcQ ", a url without id, a
\* url with another scheme, and none
UrlShort == <<"h","t","t","p","s",":","/","/","y","o","u","t","u",".","b","e","/","d","Q","w","4","w","9","W","g","X","c","Q">>
UrlWatch ==
    <<" ","h","t","t","p","s",":","/","/","w","w","w",".","y","o","u","t","u","b","e",".","c","o","m","/","w","a","t","c","h","?","t","=","1","&","v","=","d","Q","w","4","w","9","W","g","X","c","Q"," ">>
VideoUrls ==
    {JStr(UrlShort), JStr(UrlWatch),
     JStr(<<"h","t","t","p","s",":","/","/","y","o","u","t","u",".","b","e","/","s","h","o","r","t">>),
     JStr(<<"f","t","p",":","/","/","y","o","u","t","u",".","b","e","/","d","Q","w","4","w","9","W","g","X","c","Q">>),
     JNull}
VideoId == <<"d","Q","w","4","w","9","W","g","X","c","Q">>

\* video_url.startswith('http://') or video_url.startswith('https://')
IsHttpUrl(url) == MatchAt(<<"h","t","t","p",":","/","/">>, url, 1) \/ MatchAt(<<"h","t","t","p","s",":","/","/">>, url, 1)

\* the answer process_video gives before it reads the cache: 400, or 0 when
\* the request goes on
VideoUrlStatus(video_url) ==
    IF video_url = EmptyStr \/ ~IsHttpUrl(video_url) THEN 400
    ELSE IF extract_youtube_id(video_url) = NoneStr THEN 400
    ELSE 0

\* the notes generate_study_notes_with_api returns for the transcript
VideoNotes == <<"n","o","t","e","s">>

\* the positions of the documents of the cache for video_id
CachedAt(video_id) ==
    {i \in 1..Len(video_summaries_col) : video_summaries_col[i].video_id = video_id}

\* the entries of a list of saved summaries for video_id
SavedFor(saved, video_id) == {i \in 1..Len(saved) : saved[i].video_id = video_id}

\* the update_one of process_video on the user: $push to saved_summaries and
\* to recent_topics ($position 0, $slice 3), $inc of summarize_count and
\* points.  (_id, title and the times of the entries are left out.)
SaveVideo(doc, video_id, video_url, notes) ==
    [doc EXCEPT !.saved_summaries = Append(@, [type |-> "video", video_id |-> video_id,
                                               video_url |-> video_url, notes |-> notes]),
                !.recent_topics = SubSeq(<<[title |-> notes]>> \o @, 1,
                                         IF Len(@) + 1 < 3 THEN Len(@) + 1 ELSE 3),
                !.summarize_count = @ + 1,
                !.points = @ + 1]

\* get_user_doc_or_none() returning None
NoUser == [_id |-> 0]

\* users_col.update_one({"_id": user["_id"]}, ...) for the user read at the
\* start of the request
UpdateUser(user, video_id, video_url, notes) ==
    [i \in 1..Len(users_col) |->
        IF user # NoUser /\ users_col[i]._id = user._id
        THEN SaveVideo(users_col[i], video_id, video_url, notes) ELSE users_col[i]]

InitVideo ==
    /\ nlp = NlpNone
    /\ wn = WnNone
    /\ hashOrder = <<>>
    /\ rng = 0
    /\ seed = 0
    /\ text = [c \in Calls |-> [kind |-> "str", val |-> EmptyStr]]
    /\ num_questions = [c \in Calls |-> 0]
    /\ pc = [c \in Calls |-> "idle"]
    /\ CallsIdle
    /\ md_call = NoDistractorCall
    /\ tf_call = NoCall
    /\ sq_call = NoCall
    /\ gt_call = NoCall
    /\ users_col = <<UserDoc(1, EmailAlice)>>
    /\ video_summaries_col = <<>>
    /\ unique_indexes \in IndexSets
    /\ requests = [c \in Calls |-> NoCall]
    /\ recorded = <<>>

\* process_video up to the cache check: the url checks, the user read by
\* get_user_doc_or_none, the video id
VideoReceive(c, url, identity) ==
    /\ requests[c].pc \in {"idle", "done"}
    /\ Served(c) < MaxVideo
    /\ requests' = [requests EXCEPT ![c] =
          [pc |-> IF VideoUrlStatus(strip(StrOr(url, EmptyStr))) = 0 THEN "cache" ELSE "done",
           handler |-> "process_video",
           n |-> Served(c) + 1,
           video_url |-> strip(StrOr(url, EmptyStr)),
           video_id |-> extract_youtube_id(strip(StrOr(url, EmptyStr))),
           user |-> IF FindUserById(identity) = 0 THEN NoUser
                    ELSE users_col[FindUserById(identity)],
           notes |-> EmptyStr,
           cache_hit |-> FALSE,
           status |-> VideoUrlStatus(strip(StrOr(url, EmptyStr)))]]
    /\ UNCHANGED <<pipeVars, md_call, tf_call, sq_call, gt_call, users_col,
                   video_summaries_col, unique_indexes, recorded>>

\* cached = video_summaries_col.find_one({'video_id': video_id})
VideoCacheCheck(c) ==
    /\ requests[c].pc = "cache"
    /\ requests' = [requests EXCEPT ![c] =
          IF CachedAt(requests[c].video_id) # {}
          THEN [@ EXCEPT !.pc = "hit", !.cache_hit = TRUE,
                         !.notes = video_summaries_col[
                                       MinOf(CachedAt(requests[c].video_id))].notes]
          ELSE [@ EXCEPT !.pc = "transcribe"]]
    /\ UNCHANGED <<pipeVars, md_call, tf_call, sq_call, gt_call, users_col,
                   video_summaries_col, unique_indexes, recorded>>

\* the cache hit: the user read at the start is updated unless the copy read
\* then has an entry for the video; the response
VideoHit(c) ==
    /\ requests[c].pc = "hit"
    /\ users_col' =
          IF requests[c].user # NoUser
             /\ SavedFor(requests[c].user.saved_summaries, requests[c].video_id) = {}
          THEN UpdateUser(requests[c].user, requests[c].video_id,
                          requests[c].video_url, requests[c].notes)
          ELSE users_col
    /\ requests' = [requests EXCEPT ![c].pc = "done", ![c].status = 200]
    /\ UNCHANGED <<pipeVars, md_call, tf_call, sq_call, gt_call,
                   video_summaries_col, unique_indexes, recorded>>

\* the cache miss: get_transcript_from_url and generate_study_notes_with_api;
\* 500 when there is no transcript or an exception is raised
VideoTranscribe(c, ok) ==
    /\ requests[c].pc = "transcribe"
    /\ requests' = [requests EXCEPT ![c] =
          IF ok THEN [@ EXCEPT !.pc = "insert", !.notes = VideoNotes]
          ELSE [@ EXCEPT !.pc = "done", !.status = 500]]
    /\ UNCHANGED <<pipeVars, md_call, tf_call, sq_call, gt_call, users_col,
                   video_summaries_col, unique_indexes, recorded>>

\* video_summaries_col.insert_one(doc_to_insert); under a unique index on
\* video_id the insertion of a second document raises, and the document of
\* the cache is used in its place
VideoInsert(c) ==
    /\ requests[c].pc = "insert"
    /\ IF "video_id" \in unique_indexes /\ CachedAt(requests[c].video_id) # {}
       THEN /\ requests' = [requests EXCEPT
                   ![c].pc = "save",
                   ![c].notes = video_summaries_col[
                                    MinOf(CachedAt(requests[c].video_id))].notes]
            /\ UNCHANGED video_summaries_col
       ELSE /\ video_summaries_col' =
                   Append(video_summaries_col,
                          [video_id |-> requests[c].video_id,
                           video_url |-> requests[c].video_url,
                           notes |-> requests[c].notes])
            /\ requests' = [requests EXCEPT ![c].pc = "save"]
    /\ UNCHANGED <<pipeVars, md_call, tf_call, sq_call, gt_call, users_col,
                   unique_indexes, recorded>>

\* `if user: users_col.update_one(...)` after the insertion, and the response
VideoSave(c) ==
    /\ requests[c].pc = "save"
    /\ users_col' = UpdateUser(requests[c].user, requests[c].video_id,
                               requests[c].video_url, requests[c].notes)
    /\ requests' = [requests EXCEPT ![c].pc = "done", ![c].status = 200]
    /\ UNCHANGED <<pipeVars, md_call, tf_call, sq_call, gt_call,
                   video_summaries_col, unique_indexes, recorded>>

NextVideo ==
    \E c \in Calls :
        \/ \E url \in VideoUrls, identity \in {0, 1} : VideoReceive(c, url, identity)
        \/ VideoCacheCheck(c)
        \/ VideoHit(c)
        \/ \E ok \in BOOLEAN : VideoTranscribe(c, ok)
        \/ VideoInsert(c)
        \/ VideoSave(c)

SpecVideo == InitVideo /\ [][NextVideo]_vars

(***************************************************************************)
(* SpecTranscript: get_transcript_from_url (audio_extractor.py)            *)
(***************************************************************************)
\* The outcomes of the calls into the file system, yt_dlp, ffmpeg and the
\* transcription service are choices of the environment.
GtUrls == {"https://youtu.be/a", "https://youtu.be/b"}
\* transcripts the service can return (response.text.strip() can be empty)
GtTranscripts == {"", "hello", "hello world"}
GtWav == "temp_audio.wav"
GtWebm == "temp_audio.webm"

InitTranscript ==
    /\ nlp = NlpNone
    /\ wn = WnNone
    /\ hashOrder = <<>>
    /\ rng = 0
    /\ seed = 0
    /\ text = [c \in Calls |-> [kind |-> "str", val |-> EmptyStr]]
    /\ num_questions = [c \in Calls |-> 0]
    /\ pc = [c \in Calls |-> "idle"]
    /\ CallsIdle
    /\ md_call = NoDistractorCall
    /\ tf_call = NoCall
    /\ sq_call = NoCall
    /\ DbIdle
    /\ \E url \in GtUrls :
          gt_call = [pc |-> "call", url |-> url, work_dir |-> FALSE, files |-> {},
                     audio_path |-> JNull, transcript |-> JNull, error |-> JNull,
                     ret |-> JNull]

\* an exception e leaves the try block: `except Exception as e` keeps str(e)
GtFails(message) ==
    gt_call' = [gt_call EXCEPT !.pc = "finally", !.error = JStr(message)]

\* work_dir = tempfile.mkdtemp(prefix="yt_audio_"), before the try block: the
\* directory is created, or the OSError of mkdtemp leaves the function
GtMkdtemp(created) ==
    /\ gt_call.pc = "call"
    /\ gt_call' = IF created
                  THEN [gt_call EXCEPT !.pc = "primary", !.work_dir = TRUE]
                  ELSE [gt_call EXCEPT !.pc = "raised"]
    /\ UNCHANGED <<pipeVars, md_call, tf_call, sq_call, dbVars>>

\* _download_audio_from_youtube, the attempt with the yt_dlp postprocessor
GtPrimary(outcome) ==
    /\ gt_call.pc = "primary"
    /\ CASE outcome = "wav" ->
               gt_call' = [gt_call EXCEPT !.pc = "transcribe", !.files = {GtWav},
                                          !.audio_path = JStr(GtWav)]
         [] outcome = "candidate" ->
               gt_call' = [gt_call EXCEPT !.pc = "transcribe", !.files = {GtWebm},
                                          !.audio_path = JStr(GtWebm)]
         [] outcome = "no_file" ->
               GtFails("Audio download/conversion failed: temp_audio.* not found in work dir.")
         [] outcome = "DownloadError" ->
               gt_call' = [gt_call EXCEPT !.pc = "fallback"]
         [] outcome = "Exception" ->
               GtFails("yt_dlp: unexpected error")
    /\ UNCHANGED <<pipeVars, md_call, tf_call, sq_call, dbVars>>

\* the fallback after DownloadError: download as-is, then ffmpeg
GtFallback(outcome) ==
    /\ gt_call.pc = "fallback"
    /\ CASE outcome = "download_fails" ->
               GtFails("ERROR: unable to download video data")
         [] outcome = "no_file" ->
               GtFails("Fallback download succeeded but no temp_audio.* file found.")
         [] outcome = "no_ffmpeg" ->
               gt_call' = [gt_call EXCEPT !.pc = "finally", !.files = {GtWebm},
                     !.error = JStr("ffmpeg not found on PATH; cannot convert audio to WAV.")]
         [] outcome = "ffmpeg_fails" ->
               gt_call' = [gt_call EXCEPT !.pc = "finally", !.files = {GtWebm},
                     !.error = JStr("ffmpeg conversion failed: ")]
         [] outcome = "no_wav" ->
               gt_call' = [gt_call EXCEPT !.pc = "finally", !.files = {GtWebm},
                     !.error = JStr("ffmpeg conversion reported success but WAV not found.")]
         [] outcome = "wav" ->
               gt_call' = [gt_call EXCEPT !.pc = "transcribe", !.files = {GtWebm, GtWav},
                                          !.audio_path = JStr(GtWav)]
    /\ UNCHANGED <<pipeVars, md_call, tf_call, sq_call, dbVars>>

\* transcript = _transcribe_audio_with_gemini(audio_path)
GtTranscribe(outcome, transcript) ==
    /\ gt_call.pc = "transcribe"
    /\ CASE outcome = "no_key" ->
               GtFails("Gemini API key is not configured. Set GEMINI_API_KEY in environment.")
         [] outcome = "no_upload_file" ->
               GtFails("The installed google.generativeai SDK does not expose 'upload_file'.")
         [] outcome = "no_text" ->
               GtFails("Gemini transcription failed: Transcription failed: no text returned by model.")
         [] outcome = "text" ->
               gt_call' = [gt_call EXCEPT !.pc = "finally", !.transcript = JStr(transcript)]
    /\ UNCHANGED <<pipeVars, md_call, tf_call, sq_call, dbVars>>

\* the finally block and the return: shutil.rmtree(work_dir) removes the
\* directory, or raises and the exception is logged and dropped
GtFinally(removed) ==
    /\ gt_call.pc = "finally"
    /\ gt_call' = [gt_call EXCEPT
                      !.pc = "ret",
                      !.work_dir = ~removed,
                      !.files = IF removed THEN {} ELSE @,
                      !.ret = IF gt_call.error = JNull
                              THEN <<gt_call.transcript, JNull>>
                              ELSE <<JNull, gt_call.error>>]
    /\ UNCHANGED <<pipeVars, md_call, tf_call, sq_call, dbVars>>

NextTranscript ==
    \/ \E created \in BOOLEAN : GtMkdtemp(created)
    \/ \E outcome \in {"wav", "candidate", "no_file", "DownloadError", "Exception"} :
          GtPrimary(outcome)
    \/ \E outcome \in {"download_fails", "no_file", "no_ffmpeg", "ffmpeg_fails", "no_wav",
                        "wav"} : GtFallback(outcome)
    \/ \E outcome \in {"no_key", "no_upload_file", "no_text", "text"},
          transcript \in GtTranscripts : GtTranscribe(outcome, transcript)
    \/ \E removed \in BOOLEAN : GtFinally(removed)

SpecTranscript == InitTranscript /\ [][NextTranscript]_vars

(***************************************************************************)
(* Properties of create_quiz_from_text                                     *)
(***************************************************************************)
\* trimmed, lowercased text, as the properties understand "normalized"
Normalized(str) == lower(strip(str))

IsDone(c) == pc[c] = "done"

Max0(n) == IF n > 0 THEN n ELSE 0

\* C1, as stated: for every text and every integer num_questions n, the
\* returned list has length <= n.
C1_LenAtMostN ==
    \A c \in Calls : IsDone(c) => Len(final_quiz[c]) <= num_questions[c]

\* C1, amended: the returned list has length <= n when n >= 0 and is empty
\* when n < 0, i.e. its length is <= max(n, 0).
C1_LenAtMostMax0 ==
    \A c \in Calls : IsDone(c) => Len(final_quiz[c]) <= Max0(num_questions[c])

\* a call returned exactly num_questions >= 1 items and left candidates unused
C1_Witness ==
    /\ IsDone(1)
    /\ num_questions[1] >= 1
    /\ Len(final_quiz[1]) = num_questions[1]
    /\ Len(candidates[1]) > num_questions[1]

\* C2: the normalized question texts of the items of final_quiz are pairwise
\* distinct, MultipleChoice and TrueFalse items alike.
C2_NoDuplicateQuestions ==
    \A c \in Calls : \A i, j \in 1..Len(final_quiz[c]) :
        i # j => Normalized(final_quiz[c][i].question) # Normalized(final_quiz[c][j].question)

\* a call returned after skipping a candidate whose question differs from an
\* earlier one only in case, with items of both kinds in the result
C2_Witness ==
    /\ IsDone(1)
    /\ num_questions[1] > Len(candidates[1])
    /\ Len(final_quiz[1]) < Len(candidates[1])
    /\ \E i, j \in 1..Len(candidates[1]) :
          /\ candidates[1][i].question # candidates[1][j].question
          /\ Normalized(candidates[1][i].question) = Normalized(candidates[1][j].question)
    /\ \E i, j \in 1..Len(final_quiz[1]) :
          final_quiz[1][i].type = "mcq" /\ final_quiz[1][j].type = "tf"

McqWellFormed(q) ==
    /\ InList(q.correct_answer, q.options)
    /\ 2 <= Len(q.options)
    /\ Len(q.options) <= 6
    /\ \A i, j \in 1..Len(q.options) : i # j => q.options[i] # q.options[j]

\* C3: every MultipleChoice item built or returned has its correct_answer among
\* its options, between 2 and 6 options, and pairwise distinct options.
C3_McqOptionInvariants ==
    \A c \in Calls :
        /\ \A i \in 1..Len(candidates[c]) :
              candidates[c][i].type = "mcq" => McqWellFormed(candidates[c][i])
        /\ \A i \in 1..Len(final_quiz[c]) :
              final_quiz[c][i].type = "mcq" => McqWellFormed(final_quiz[c][i])

\* a returned MultipleChoice item whose distractors came from the lexical
\* network (which also offered the answer itself) and from the keywords
C3_Witness ==
    /\ IsDone(1)
    /\ wn.avail
    /\ \E i \in 1..Len(final_quiz[1]) :
          /\ final_quiz[1][i].type = "mcq"
          /\ final_quiz[1][i].answer = <<"S","a","n","t","a"," ","C","l","a","u","s">>
          /\ InList(<<"S","a","i","n","t"," ","N","i","c","k">>, final_quiz[1][i].options)
          /\ InList(<<"j","o","l","l","y">>, final_quiz[1][i].options)

\* C4: every TrueFalse item has correct_answer "True" or "False", and when it is
\* "False" its question differs from the sentence it was built from.
C4_TfTag ==
    \A c \in Calls : \A i \in 1..Len(candidates[c]) :
        candidates[c][i].type = "tf" =>
            /\ candidates[c][i].correct_answer \in {StrTrue, StrFalse}
            /\ candidates[c][i].correct_answer = StrFalse =>
                  candidates[c][i].question # cand_src[c][i]

\* the text has at least 5 sentences of at least 6 words each
NonTrivialText(c) ==
    /\ IsStr(text[c])
    /\ Len(simple_sent_split(text[c].val)) >= 5
    /\ \A i \in 1..Len(simple_sent_split(text[c].val)) :
          Len(split(simple_sent_split(text[c].val)[i])) >= 6

\* C5: in heuristic mode (no parser, no lexical network), a call on a text of
\* at least 5 sentences of at least 6 words each with num_questions >= 1
\* returns at least one item.
C5_GracefulDegradation ==
    \A c \in Calls :
        (IsDone(c) /\ ~nlp.avail /\ ~wn.avail /\ NonTrivialText(c) /\ num_questions[c] >= 1)
            => Len(final_quiz[c]) >= 1

\* text is "", None or another value that is no str
EmptyOrInvalid(inp) == ~IsStr(inp) \/ inp.val = EmptyStr

\* C6: for "", None and any input that is no str, preprocess yields the state
\* whose sentences, noun chunks and keywords are empty lists, and the call
\* returns the empty list without raising.
C6_EmptyInput ==
    \A c \in Calls : EmptyOrInvalid(text[c]) =>
        /\ pc[c] # "raised"
        /\ pc[c] \notin {"idle", "start"} => state[c] = EmptyState
        /\ Len(final_quiz[c]) = 0

\* calls returned for a text that is an int, and for None
C6_Witness ==
    /\ IsDone(1)
    /\ text[1] \in {[kind |-> "int", val |-> 7], [kind |-> "NoneType"]}
    /\ num_questions[1] = MaxN

\* C8: for the three-sentence scenario text and num_questions = 5 the call
\* returns between 1 and 5 items, each built from one of the three sentences.
C8_Scenario ==
    \A c \in Calls :
        (IsDone(c) /\ text[c] = [kind |-> "str", val |-> TextScenario]
                   /\ num_questions[c] = ScenarioN)
            => /\ 1 <= Len(final_quiz[c])
               /\ Len(final_quiz[c]) <= 5
               /\ \A i \in 1..Len(final_src[c]) :
                     InList(final_src[c][i], simple_sent_split(TextScenario))

(***************************************************************************)
(* Properties of repeated and concurrent calls                             *)
(***************************************************************************)
\* C7: with the text, num_questions, the backends and the seed fixed, a
\* repeated call of create_quiz_from_text returns the same ordered list of
\* items (kinds, question texts, option orders, correct answers, topics).
C7_RepeatedCallsAgree ==
    (IsDone(1) /\ IsDone(2)) => final_quiz[1] = final_quiz[2]

\* C9: the draws of a call are consecutive draws of its random source under
\* every interleaving of two calls: no draw of the other call falls between
\* two of its own.
C9_DrawsUndisturbed ==
    \A c \in Calls : \A i \in 1..(Len(draws[c]) - 1) :
        draws[c][i + 1] = RngNext(draws[c][i])

(***************************************************************************)
(* Properties of make_distractors                                          *)
(***************************************************************************)
\* C10: make_distractors(answer, state, n) returns at most n entries, none of
\* them equal to the answer case-insensitively.
C10_DistractorsContract ==
    md_call.pc = "ret" =>
        /\ Len(md_call.ret) <= md_call.n
        /\ \A i \in 1..Len(md_call.ret) : lower(md_call.ret[i]) # lower(md_call.answer)

\* C11: make_distractors returns fewer than n entries only when the keywords
\* of the state are used up: every keyword is then in the result, the answer
\* itself excepted.
C11_ShortOnlyIfKeywordsUsed ==
    (md_call.pc = "ret" /\ Len(md_call.ret) < md_call.n) =>
        \A i \in 1..Len(md_call.state.keywords) :
            \/ InList(md_call.state.keywords[i], md_call.ret)
            \/ lower(md_call.state.keywords[i]) = lower(md_call.answer)

(***************************************************************************)
(* Properties of make_tf_from_sentence                                     *)
(***************************************************************************)
\* C12: make_tf_from_sentence never rejects: for every sentence, state and
\* false_prob it returns an item of type "tf", never None.
C12_TfNeverRejects ==
    tf_call.pc = "ret" =>
        /\ tf_call.ret # None
        /\ tf_call.ret.type = "tf"
        /\ tf_call.ret.correct_answer \in {StrTrue, StrFalse}

\* the false branch was taken and the call degraded to the truthful item
C12_Witness ==
    /\ tf_call.pc = "ret"
    /\ ~tf_call.truthful
    /\ tf_call.ret.type = "tf"
    /\ tf_call.ret.correct_answer = StrTrue

\* C18, as stated: the truthful item is emitted at the first step with
\* probability false_prob: with false_prob = 1 every draw takes the truthful
\* branch, with false_prob = 0 no draw takes it.
C18_TruthfulWithFalseProb ==
    tf_call.pc \in {"choice", "ret"} =>
        /\ tf_call.false_prob = FalseProbOne =>
              (tf_call.truthful /\ tf_call.pc = "ret" /\ tf_call.ret.correct_answer = StrTrue)
        /\ tf_call.false_prob = FalseProbZero => ~tf_call.truthful

\* C18, amended: the truthful item is emitted at the first step exactly when
\* the draw exceeds false_prob: with false_prob = 1 no draw takes the truthful
\* branch, with false_prob = 0 every draw but 0.0 takes it, and the item then
\* has the sentence as its question and "True" as its answer.
C18_TruthfulIffDrawAbove ==
    tf_call.pc \in {"choice", "ret"} =>
        /\ tf_call.false_prob = FalseProbOne => ~tf_call.truthful
        /\ tf_call.false_prob = FalseProbZero => (tf_call.truthful <=> tf_call.raw > 0)
        /\ tf_call.truthful =>
              /\ tf_call.pc = "ret"
              /\ tf_call.ret.question = tf_call.sentence
              /\ tf_call.ret.correct_answer = StrTrue

\* with false_prob = 0 a draw above 0.0 returned the truthful item, for a
\* sentence that has a swap target and distractors
C18_Witness ==
    /\ tf_call.pc = "ret"
    /\ tf_call.false_prob = FalseProbZero
    /\ tf_call.truthful
    /\ tf_call.sentence = TextSanta
    /\ tf_call.state = HeuristicState(TextSanta)

(***************************************************************************)
(* Properties of the sentence loop                                         *)
(***************************************************************************)
\* C13: a sentence that make_mcq_from_sentence rejects adds no item and does
\* not end the loop: the call goes on to the coin of the same sentence, the
\* sentences are taken one after the other, each with an attempt at an MCQ,
\* no exception leaves the call, and the call returns, all its sentences
\* processed.
C13_BatchNeverAborts ==
    /\ [][\A c \in Calls :
            /\ (pc[c] = "mcq" /\ pc'[c] # "mcq_shuffle") =>
                  /\ pc'[c] = "coin"
                  /\ candidates'[c] = candidates[c]
                  /\ sent_idx'[c] = sent_idx[c]
            /\ pc[c] # "start" => sent_idx'[c] \in {sent_idx[c], sent_idx[c] + 1}
            /\ (sent_idx'[c] = sent_idx[c] + 1 /\ sent_idx'[c] <= Len(state[c].sentences))
                  => pc'[c] = "mcq"]_vars
    /\ [](\A c \in Calls : pc[c] # "raised")
    /\ <>(IsDone(1) /\ sent_idx[1] = Len(state[1].sentences) + 1)

\* the call returned for TextNotes: its sentence "Moon rose on the lake." was
\* rejected, and the MCQ of the sentence after it is among the candidates
C13_Witness ==
    /\ IsDone(1)
    /\ text[1] = [kind |-> "str", val |-> TextNotes]
    /\ \A i \in 1..Len(candidates[1]) :
          candidates[1][i].type = "mcq" => cand_src[1][i] = TextMoon
    /\ \E i \in 1..Len(candidates[1]) : candidates[1][i].type = "mcq"
    /\ \E i \in 1..Len(candidates[1]) : cand_src[1][i] # TextMoon

(***************************************************************************)
(* Properties of submit_quiz                                               *)
(***************************************************************************)
\* the questions of the request that carry a correct_answer
Gradable(call) ==
    {i \in 1..Len(call.quiz) : DictGet(call.quiz[i], "correct_answer") # JNull}

\* C14: submit_quiz counts an answer as correct exactly when its trimmed,
\* lowercased string equals the trimmed, lowercased correct_answer of its
\* question; questions without correct_answer are not graded, so
\* 0 <= correct <= total <= len(quiz), and points_awarded = 10 * correct.
C14_Grading ==
    (sq_call.pc = "ret" /\ sq_call.resp.status = 200) =>
        /\ sq_call.resp.total = Cardinality(Gradable(sq_call))
        /\ sq_call.resp.correct =
              Cardinality({i \in Gradable(sq_call) :
                  lower(strip(IF sq_call.answers[i] = JNull THEN EmptyStr
                              ELSE PyStr(sq_call.answers[i])))
                      = lower(strip(PyStr(sq_call.quiz[i].correct_answer)))})
        /\ 0 <= sq_call.resp.correct
        /\ sq_call.resp.correct <= sq_call.resp.total
        /\ sq_call.resp.total <= Len(sq_call.quiz)
        /\ sq_call.resp.points_awarded = 10 * sq_call.resp.correct

\* a graded request of three questions: one without correct_answer, one
\* answered " true " for "True", one answered wrongly
C14_Witness ==
    /\ sq_call.pc = "ret"
    /\ sq_call.resp.status = 200
    /\ Len(sq_call.quiz) = 3
    /\ sq_call.resp.total = 2
    /\ sq_call.resp.correct = 1
    /\ \E i \in Gradable(sq_call) :
          /\ sq_call.quiz[i].correct_answer = JStr(StrTrue)
          /\ sq_call.answers[i] = JStr(<<" ">> \o lower(StrTrue) \o <<" ">>)

(***************************************************************************)
(* Properties of preprocess                                                *)
(***************************************************************************)
\* preprocess has just returned the state of call c (no statement assigns it
\* afterwards), for a text with sentences to find
Preprocessed(c) ==
    /\ pc[c] \in {"mcq", "shuffle"}
    /\ sent_idx[c] = 1
    /\ IsStr(text[c])
    /\ Truthy(text[c])

\* the sentences of the document, in its order: those the parser finds, or
\* those of simple_sent_split
DocSentences(c) ==
    IF nlp.avail THEN StripAll(nlp.parse[text[c].val].sents)
    ELSE simple_sent_split(text[c].val)

RECURSIVE IsSubSeqFrom(_, _, _, _)
\* xs[i..] can be read off ys[j..], left to right
IsSubSeqFrom(xs, ys, i, j) ==
    IF i > Len(xs) THEN TRUE
    ELSE IF j > Len(ys) THEN FALSE
    ELSE IF xs[i] = ys[j] THEN IsSubSeqFrom(xs, ys, i + 1, j + 1)
    ELSE IsSubSeqFrom(xs, ys, i, j + 1)

\* C15: in either mode, every sentence of the state of preprocess has more
\* than 4 whitespace-separated tokens, and the sentences are in the order of
\* the document.
C15_SentencesLongInOrder ==
    \A c \in Calls : Preprocessed(c) =>
        /\ \A i \in 1..Len(state[c].sentences) : Len(split(state[c].sentences[i])) > 4
        /\ IsSubSeqFrom(state[c].sentences, DocSentences(c), 1, 1)

\* preprocess ran on TextNotes: "Sun is out now." (4 tokens) is not among the
\* sentences, the two sentences after it are
C15_Witness ==
    /\ pc[1] = "mcq"
    /\ sent_idx[1] = 1
    /\ text[1] = [kind |-> "str", val |-> TextNotes]
    /\ Len(simple_sent_split(TextNotes)) = 3
    /\ Len(split(simple_sent_split(TextNotes)[1])) = 4
    /\ Len(state[1].sentences) = 2

\* the tokens preprocess counts: the lowercased lemmas of the keyword tokens
\* of the parser, or the lowercased words of more than 3 characters
CountedTokens(c) ==
    IF nlp.avail
    THEN LowerAll(Lemmas(SelectSeq(nlp.parse[text[c].val].tokens, IsKeywordToken)))
    ELSE LowerAll(SelectSeq(FindallKwWord(text[c].val), LAMBDA w : Len(w) > 3))

\* kw has at most KeywordCap entries, no entry twice, and the counts of its
\* entries among tokens never rise
Ranked(kw, tokens) ==
    /\ Len(kw) <= 50
    /\ \A i, j \in 1..Len(kw) : i < j => kw[i] # kw[j]
    /\ \A i \in 1..(Len(kw) - 1) : CountOf(kw[i], tokens) >= CountOf(kw[i + 1], tokens)
    /\ \A i \in 1..Len(kw) : CountOf(kw[i], tokens) >= 1

\* C16: the keywords of the state of preprocess are at most 50, without
\* repeats, and ordered by non-increasing frequency.
C16_KeywordsRanked ==
    \A c \in Calls : Preprocessed(c) => Ranked(state[c].keywords, CountedTokens(c))

\* preprocess ran on TextManyWords, of 52 distinct words: the keywords are 50,
\* and "zeta", the last word of the text and its most frequent, is the first
C16_Witness ==
    /\ Preprocessed(1)
    /\ text[1] = [kind |-> "str", val |-> TextManyWords]
    /\ Len(state[1].keywords) = 50
    /\ state[1].keywords[1] = <<"z","e","t","a">>

(***************************************************************************)
(* Properties of get_transcript_from_url                                   *)
(***************************************************************************)
\* C17: get_transcript_from_url returns (transcript, None) on success and
\* (None, error_message) on any failure of the download or the transcription,
\* never raising, and on every path the temporary work directory it created
\* is removed before it returns.
C17_TranscriptContract ==
    /\ gt_call.work_dir => gt_call.pc # "raised"
    /\ gt_call.pc = "ret" =>
          /\ \/ gt_call.ret[1] # JNull /\ gt_call.ret[2] = JNull
             \/ gt_call.ret[1] = JNull /\ gt_call.ret[2] # JNull
          /\ gt_call.ret[1] # JNull <=> gt_call.error = JNull
          /\ ~gt_call.work_dir

(***************************************************************************)
(* Properties of the selection                                             *)
(***************************************************************************)
\* the indices of pool whose question, trimmed and lowercased, is not empty
\* and is that of no earlier entry
FirstOccurrences(pool) ==
    {i \in 1..Len(pool) :
        /\ lower(strip(pool[i].question)) # EmptyStr
        /\ \A j \in 1..(i - 1) :
              lower(strip(pool[j].question)) # lower(strip(pool[i].question))}

\* the entries of pool at the k smallest indices of idx (at all of them if
\* idx has fewer than k), in the order of pool
TakeAt(pool, idx, k) ==
    [r \in 1..(IF k < Cardinality(idx) THEN k ELSE Cardinality(idx)) |->
        pool[CHOOSE i \in idx : Cardinality({j \in idx : j <= i}) = r]]

\* C19: for num_questions >= 0 the returned list is the first
\* min(num_questions, d) first-occurrence items of the shuffled pool, in the
\* order of the pool, d being the number of distinct normalized questions.
C19_FirstOccurrencesInPoolOrder ==
    \A c \in Calls : (IsDone(c) /\ num_questions[c] >= 0) =>
        final_quiz[c] = TakeAt(candidates[c], FirstOccurrences(candidates[c]),
                               num_questions[c])

\* a call with num_questions = 2 returned two items of a pool whose second
\* entry repeats the question of the first: the list is not a prefix of the pool
C19_Witness ==
    /\ IsDone(1)
    /\ num_questions[1] = 2
    /\ Len(final_quiz[1]) = 2
    /\ Len(candidates[1]) >= 3
    /\ 2 \notin FirstOccurrences(candidates[1])
    /\ final_quiz[1][2] = candidates[1][3]

(***************************************************************************)
(* Properties of make_mcq_from_sentence                                    *)
(***************************************************************************)
\* the first two whitespace-separated tokens of sentence, lowercased
FirstTwoLower(sentence) ==
    {lower(split(sentence)[k]) : k \in {h \in {1, 2} : h <= Len(split(sentence))}}

\* the answer chosen for sentence is, case-insensitively, one of its first two
\* tokens
AnswerAmongFirstTwo(ans, sentence) ==
    /\ ~Falsy(ans)
    /\ lower(strip(ans)) \in FirstTwoLower(sentence)

\* C20: no MCQ item has an answer that equals, case-insensitively, one of the
\* first two whitespace tokens of its source sentence: make_mcq_from_sentence
\* returns None for a sentence whose chosen answer is one of them.
C20_AnswerNotAmongFirstTwo ==
    \A c \in Calls :
        /\ pc[c] = "mcq_shuffle" => lower(mcq[c].answer) \notin FirstTwoLower(CurSentence(c))
        /\ pc[c] = "mcq" =>
              (AnswerAmongFirstTwo(select_answer_candidate(CurSentence(c)), CurSentence(c))
                  => make_mcq_from_sentence(CurSentence(c), state[c], McqDistractors) = None)
        /\ IsDone(c) =>
              \A i \in 1..Len(final_quiz[c]) :
                  final_quiz[c][i].type = "mcq" =>
                      lower(final_quiz[c][i].answer) \notin FirstTwoLower(final_src[c][i])

\* "Moon rose on the lake." was rejected, its answer "Moon" being its first
\* token: the call is at the coin of that sentence with no candidate
C20_Witness ==
    /\ pc[1] = "coin"
    /\ sent_idx[1] = 1
    /\ text[1] = [kind |-> "str", val |-> TextNotes]
    /\ select_answer_candidate(CurSentence(1)) = <<"M","o","o","n">>
    /\ AnswerAmongFirstTwo(select_answer_candidate(CurSentence(1)), CurSentence(1))
    /\ candidates[1] = <<>>

\* question is sentence with the span of Len(ans) characters at index i
\* replaced by the blank marker, every other character unchanged
BlankedAt(question, sentence, ans, i) ==
    /\ i + Len(ans) - 1 <= Len(sentence)
    /\ question = SubSeq(sentence, 1, i - 1) \o BlankMarker
                      \o SubSeq(sentence, i + Len(ans), Len(sentence))

\* ans occurs in sentence at index i when case is ignored
OccursIgnoreCase(ans, sentence, i) ==
    /\ i + Len(ans) - 1 <= Len(sentence)
    /\ \A k \in 1..Len(ans) : lower_char(sentence[i + k - 1]) = lower_char(ans[k])

\* the blank stands at the first case-insensitive occurrence of the answer
BlankedFirst(q, sentence) ==
    \E i \in 1..Len(sentence) :
        /\ OccursIgnoreCase(q.answer, sentence, i)
        /\ \A j \in 1..(i - 1) : ~OccursIgnoreCase(q.answer, sentence, j)
        /\ BlankedAt(q.question, sentence, q.answer, i)

\* C21: the question of every MCQ item is its source sentence with exactly the
\* first case-insensitive occurrence of the answer replaced by "______" and
\* every other character unchanged; so the question contains the marker and
\* differs from the sentence.
C21_QuestionBlanksFirstOccurrence ==
    \A c \in Calls :
        /\ \A i \in 1..Len(candidates[c]) :
              candidates[c][i].type = "mcq" =>
                  /\ BlankedFirst(candidates[c][i], cand_src[c][i])
                  /\ contains(BlankMarker, candidates[c][i].question)
                  /\ candidates[c][i].question # cand_src[c][i]
        /\ \A i \in 1..Len(final_quiz[c]) :
              final_quiz[c][i].type = "mcq" =>
                  BlankedFirst(final_quiz[c][i], final_src[c][i])

\* "the moonlit lake hid the Moon.": the answer "Moon" occurs first, in
\* another case, inside "moonlit", and it is that occurrence that is blanked
C21_Witness ==
    /\ IsDone(1)
    /\ \E i \in 1..Len(final_quiz[1]) :
          /\ final_quiz[1][i].type = "mcq"
          /\ final_src[1][i] = TextMoonlit
          /\ final_quiz[1][i].answer = <<"M","o","o","n">>
          /\ contains(final_quiz[1][i].answer, final_quiz[1][i].question)
          /\ BlankedAt(final_quiz[1][i].question, TextMoonlit, final_quiz[1][i].answer, 5)

(***************************************************************************)
(* Properties of select_answer_candidate                                   *)
(***************************************************************************)
\* the characters of a word
WordCharSet == AlphaSet \cup {"_", "0", "1", "2", "3", "4", "5", "6", "7", "8", "9"}

\* the indices of s where a whole word starts
WordStarts(s) ==
    {i \in 1..Len(s) : s[i] \in WordCharSet /\ (i = 1 \/ s[i - 1] \notin WordCharSet)}

\* the index after the whole word of s that starts at i
WordEnd(s, i) == ScanWhile(s, i, WordCharSet)

\* the whole word of s at i is capitalized and has at least 4 letters
IsCapWord(s, i) ==
    /\ i \in WordStarts(s)
    /\ s[i] \in UpperSet
    /\ WordEnd(s, i) - i >= 4
    /\ \A k \in (i + 1)..(WordEnd(s, i) - 1) : s[k] \in LowerSet

\* the index after the run of capitalized words, separated by whitespace
\* only, whose last word so far ends before e
RECURSIVE CapRunEnd(_, _)
CapRunEnd(s, e) ==
    LET w == ScanWhile(s, e, SpaceSet)
    IN  IF w > e /\ w <= Len(s) /\ IsCapWord(s, w) THEN CapRunEnd(s, WordEnd(s, w))
        ELSE e

\* the whole word of s at i is alphabetic and has at least 4 letters
IsAlphaWord4(s, i) ==
    /\ i \in WordStarts(s)
    /\ WordEnd(s, i) - i >= 4
    /\ \A k \in i..(WordEnd(s, i) - 1) : s[k] \in AlphaSet

\* the answer the heuristic mode is said to select
StatedAnswer(s) ==
    LET caps == {i \in 1..Len(s) : IsCapWord(s, i)}
        words == {i \in 1..Len(s) : IsAlphaWord4(s, i)}
    IN  IF caps # {} THEN SubSeq(s, MinOf(caps), CapRunEnd(s, WordEnd(s, MinOf(caps))) - 1)
        ELSE IF words # {} THEN SubSeq(s, MinOf(words), WordEnd(s, MinOf(words)) - 1)
        ELSE NoneStr

\* C22: in heuristic mode select_answer_candidate(sentence) is the first run of
\* consecutive capitalized words, each a whole word of at least 4 letters, if
\* the sentence has one; otherwise the first alphabetic token of at least 4
\* letters; otherwise None.
C22_HeuristicAnswer ==
    \A c \in Calls :
        (pc[c] = "mcq" /\ ~nlp.avail) =>
            select_answer_candidate(CurSentence(c)) = StatedAnswer(CurSentence(c))

(***************************************************************************)
(* Properties of the keywords of the heuristic mode                        *)
(***************************************************************************)
\* preprocess has just returned the state of call c in heuristic mode
HeuristicPreprocessed(c) == Preprocessed(c) /\ ~nlp.avail

\* C23: in heuristic mode every keyword returned by preprocess is a lowercase
\* token made only of alphabetic characters and longer than 3 characters.
C23_KeywordsAlphabetic ==
    \A c \in Calls :
        HeuristicPreprocessed(c) =>
            \A k \in 1..Len(state[c].keywords) :
                /\ Len(state[c].keywords[k]) > 3
                /\ \A i \in 1..Len(state[c].keywords[k]) :
                      state[c].keywords[k][i] \in LowerSet

\* C23, amended: in heuristic mode every keyword returned by preprocess is
\* longer than 3 characters, starts with a lowercase letter and is made only
\* of lowercase letters and hyphens.
C23_KeywordsLettersAndHyphens ==
    \A c \in Calls :
        HeuristicPreprocessed(c) =>
            \A k \in 1..Len(state[c].keywords) :
                /\ Len(state[c].keywords[k]) > 3
                /\ state[c].keywords[k][1] \in LowerSet
                /\ \A i \in 1..Len(state[c].keywords[k]) :
                      state[c].keywords[k][i] \in LowerSet \cup {"-"}

\* "we saw the well-known Moon on the lake.": the keywords are "well-known",
\* "moon" and "lake"; "saw" and "the" are too short
C23_Witness ==
    /\ HeuristicPreprocessed(1)
    /\ text[1] = [kind |-> "str", val |-> TextWellKnown]
    /\ state[1].keywords = <<<<"w","e","l","l","-","k","n","o","w","n">>,
                             <<"m","o","o","n">>, <<"l","a","k","e">>>>

(***************************************************************************)
(* Properties of make_tf_from_sentence                                     *)
(***************************************************************************)
\* the false branch of the call was taken and found nothing to swap: no swap
\* target in the sentence, or no distractor for it
NothingToSwap(call) ==
    /\ ~call.truthful
    /\ \/ Falsy(SwapTarget(call.sentence))
       \/ make_distractors(SwapTarget(call.sentence), call.state, TfDistractors) = <<>>

\* C24: every TF item whose correct answer is "True" has its source sentence,
\* unaltered, as its question; when the false branch is taken and no swap
\* target is found or make_distractors returns no distractor, the item
\* returned is the unaltered sentence with "True", never a "False" item.
C24_TrueItemsKeepSentence ==
    tf_call.pc = "ret" =>
        /\ tf_call.ret.correct_answer = StrTrue => tf_call.ret.question = tf_call.sentence
        /\ NothingToSwap(tf_call) =>
              /\ tf_call.ret.question = tf_call.sentence
              /\ tf_call.ret.answer = StrTrue
              /\ tf_call.ret.correct_answer = StrTrue

\* the false branch was taken for "we saw the Moon on the lake." with a state
\* that has no keyword: the swap target "Moon" has no distractor, and the
\* sentence is returned with "True"
C24_Witness ==
    /\ tf_call.pc = "ret"
    /\ ~tf_call.truthful
    /\ tf_call.sentence = TextMoon
    /\ SwapTarget(tf_call.sentence) = <<"M","o","o","n">>
    /\ make_distractors(SwapTarget(tf_call.sentence), tf_call.state, TfDistractors) = <<>>
    /\ tf_call.ret.question = TextMoon
    /\ tf_call.ret.correct_answer = StrTrue

(***************************************************************************)
(* Properties of make_distractors without candidates of WordNet            *)
(***************************************************************************)
\* the first n entries of xs, none for n <= 0
FirstN(xs, n) == SubSeq(xs, 1, IF n < 0 THEN 0 ELSE IF n < Len(xs) THEN n ELSE Len(xs))

\* the entries of xs not contained in answer when case is ignored
NotContainedIn(xs, answer) ==
    SelectSeq(xs, LAMBDA x : ~contains(lower(x), lower(answer)))

\* the keywords, then the noun chunks, that are not contained in the answer,
\* each entry once, truncated to n
StatedFallback(answer, st, n) ==
    FirstN(Dedupe(NotContainedIn(st.keywords, answer)
                      \o NotContainedIn(st.noun_chunks, answer)), n)

\* WordNet has no candidate for the answer of the call
NoWordNetCandidate(call) ==
    wordnet_distractors(lower(FirstToken(call.answer)), call.n) = <<>>

FirstKeyword(c) ==
    IF Len(state[c].keywords) >= 1 THEN Head(state[c].keywords) ELSE <<>>

\* C26: the topic of every item built by make_mcq_from_sentence or
\* make_tf_from_sentence is the first keyword of the state, or the empty
\* string when there is none; so all items one call returns have one topic.
C26_TopicIsFirstKeyword ==
    \A c \in Calls :
        /\ pc[c] = "mcq_shuffle" => mcq[c].topic = FirstKeyword(c)
        /\ \A i \in 1..Len(candidates[c]) : candidates[c][i].topic = FirstKeyword(c)
        /\ \A i \in 1..Len(final_quiz[c]) : final_quiz[c][i].topic = FirstKeyword(c)
        /\ \A i, j \in 1..Len(final_quiz[c]) :
              final_quiz[c][i].topic = final_quiz[c][j].topic

\* a call returned an MCQ item and a TF item of a text with several keywords
C26_Witness ==
    /\ IsDone(1)
    /\ Len(state[1].keywords) >= 2
    /\ \E i, j \in 1..Len(final_quiz[1]) :
          /\ final_quiz[1][i].type = "mcq"
          /\ final_quiz[1][j].type = "tf"
          /\ final_quiz[1][i].topic = state[1].keywords[1]
          /\ final_quiz[1][j].topic = state[1].keywords[1]

(***************************************************************************)
(* Properties of the incorrect_topics of a user                            *)
(***************************************************************************)
\* the request has no wrong answer: every question that has a correct_answer
\* is answered with it (trimmed, case ignored)
NoWrongAnswer(call) ==
    \A i \in 1..Len(call.quiz) :
        (i <= Len(call.answers) /\ DictGet(call.quiz[i], "correct_answer") # JNull)
            => lower(UserAnsStr(call.answers[i]))
                   = lower(strip(PyStr(call.quiz[i].correct_answer)))

\* the entries of a list of documents are in the order of their times
InTimeOrder(docs) == \A i, j \in 1..Len(docs) : i < j => docs[i].time <= docs[j].time

\* C27: after any sequence of requests of submit_quiz by one user, the
\* incorrect_topics of the user hold at most 10 entries, the most recently
\* recorded wrong answers in submission order; a request with no wrong answer
\* leaves incorrect_topics unchanged.
C27_IncorrectTopicsLastTen ==
    /\ [](/\ Len(users_col[1].incorrect_topics) <= 10
          /\ users_col[1].incorrect_topics = LastN(recorded, 10)
          /\ InTimeOrder(users_col[1].incorrect_topics))
    /\ [][(sq_call.pc = "call" /\ sq_call'.pc = "ret" /\ NoWrongAnswer(sq_call))
             => users_col' = users_col]_vars

\* more than 10 wrong answers were recorded: the list holds the last 10, the
\* oldest ones are gone
C27_Witness ==
    /\ sq_call.pc = "ret"
    /\ Len(recorded) > 10
    /\ Len(users_col[1].incorrect_topics) = 10
    /\ users_col[1].incorrect_topics[1].time > recorded[1].time
    /\ users_col[1].incorrect_topics[10] = recorded[Len(recorded)]

(***************************************************************************)
(* Properties of the options under the grading of submit_quiz              *)
(***************************************************************************)
\* the positions of the options of q that submit_quiz grades as correct
AcceptedOptions(q) ==
    {k \in 1..Len(q.options) : IsCorrect(JStr(q.options[k]), JStr(q.correct_answer))}

\* C28: exactly one option of every MCQ item is accepted by the comparison of
\* submit_quiz (trimmed, case-insensitive equality with correct_answer): no
\* distractor equals the correct answer up to case and surrounding whitespace.
C28_OneAcceptedOption ==
    \A c \in Calls :
        \A i \in 1..Len(candidates[c]) :
            candidates[c][i].type = "mcq" =>
                Cardinality(AcceptedOptions(candidates[c][i])) = 1

(***************************************************************************)
(* Properties of register                                                  *)
(***************************************************************************)
\* no two documents of users have the same email (emails are stored trimmed
\* and lowercased)
NoDuplicateEmails ==
    \A i, j \in 1..Len(users_col) :
        lower(strip(users_col[i].email)) = lower(strip(users_col[j].email)) => i = j

\* C29: after any interleaving of requests of register no two user documents
\* share a normalized email: a request for an email that is already
\* registered is answered 409 and inserts no document, also when two requests
\* for one new email run concurrently.
C29_UniqueEmails ==
    /\ NoDuplicateEmails
    /\ \A c \in Calls :
          (requests[c].pc = "done" /\ requests[c].status # 400) =>
              /\ requests[c].existed => (requests[c].status = 409 /\ requests[c].inserted = 0)
              /\ requests[c].status \in {201, 409}


(***************************************************************************)
(* C30: after any interleaving of process_video requests for one video_id  *)
(* the cache holds at most one document for that video_id, and a user's    *)
(* saved_summaries holds at most one entry for it, with summarize_count    *)
(* and points incremented at most once for it, also when two requests      *)
(* miss the cache concurrently.  (Every request of SpecVideo that reaches  *)
(* the cache is for VideoId.)                                              *)
(***************************************************************************)
OneCachedDocument == Cardinality(CachedAt(VideoId)) <= 1

SavedOnce ==
    \A i \in 1..Len(users_col) :
        /\ Cardinality(SavedFor(users_col[i].saved_summaries, VideoId)) <= 1
        /\ users_col[i].summarize_count <= 1
        /\ users_col[i].points <= 1

C30_OneSummaryPerVideo == OneCachedDocument /\ SavedOnce

====
